---- MODULE Spec2Model ----
(***************************************************************************)
(* Model of the RAG pipeline of the TDR backend:                           *)
(*   backend/app/services/rag.py   RAGService (generate_fields, parser)    *)
(*   backend/app/db/chroma.py      ChromaDBClient (add, search, get_stats) *)
(*   backend/app/db/models.py      TdrTipo, GenerateFieldsResponse         *)
(*   backend/app/services/embeddings.py  EmbeddingService, create_tdr_text *)
(*   backend/app/api/tdr.py        add_tdr, get_tdr, get_stats             *)
(*   backend/app/db/sql_models.py  TdrGenerado, the relational rows        *)
(*   backend/scripts/import_tdrs.py, load_tdrs.py   the batch import       *)
(*                                                                         *)
(* Text is a sequence of one-character strings.  The backtick cannot be    *)
(* written inside a TLA+ string, so the one-character token "BQ" stands    *)
(* for it.  Numbers with a fractional part are exact rationals             *)
(* [num, den]; similarity and confidence are such rationals.               *)
(***************************************************************************)
EXTENDS Integers, Sequences, FiniteSets, TLC

VARIABLES
    collection,     \* ChromaDBClient._collection: stored documents, in insertion order
    pc,             \* position of the generate_fields request in flight
    request,        \* the GenerateFieldsRequest being served
    storeResult,    \* what _collection.query returned to the last search
    referencias,    \* list[TdrSearchResult] returned by search_similar_tdrs
    genLog,         \* prompts sent to client.models.generate_content by this request
    response,       \* the GenerateFieldsResponse returned (or NoResponse)
    content,        \* the string handed to _parse_json_response
    parsed,         \* what _parse_json_response returned for content
    origin,         \* how content was composed (object, leading text, trailing text)
    pstep,          \* position of the parser run: "input" or "parsed"
    raised,         \* the call whose exception left the request in flight, or "none"
    config,         \* name and metadata of the collection the client holds
    importRun,      \* the run of the import script: its documents and how far it got
    canon,          \* the texts embedded for one field mapping: at ingestion, at query time
    rendered,       \* what _build_context returned for referencias, when run on its own
    embedSvc,       \* EmbeddingService: the class attributes, the threads constructing it, the last call
    sqlRows,        \* the ids of the TdrGenerado rows committed to the relational store
    addFlow,        \* the POST /api/tdr/add request in flight, step by step
    twin,           \* an invocation that ended, kept to set its repetition beside it
    tdrText,        \* create_tdr_text called on its own: the arguments and what came of the call
    trip,           \* one document on its way through an ingestion path and back out of search and GET
    statsFlow,      \* a get_stats call between its count and its enumeration
    idRun,          \* the source documents of an import run and the ids process_tdr gave them
    lastCall        \* the last add, get, get_stats or clear call on the ChromaDBClient
                    \* and what it returned; NoCall once a search has come after it

vars == <<collection, pc, request, storeResult, referencias, genLog, response,
          content, parsed, origin, pstep, raised, config, lastCall, rendered, canon, importRun, embedSvc, sqlRows, addFlow, twin, tdrText, trip, statsFlow, idRun>>

ragVars == <<collection, pc, request, storeResult, referencias, genLog, response, raised>>

indexVars == <<config, lastCall>>

\* the embedding service, the relational store and the calls studied on their own
lateVars == <<embedSvc, sqlRows, addFlow, twin, tdrText, trip, statsFlow, idRun>>

\* the variables of the functions that are run on their own
sideVars == <<rendered, canon, importRun, lateVars>>

-----------------------------------------------------------------------------
(* Bounds of the model *)

MaxDocs == 2        \* documents the index may hold
MaxCoord == 1       \* embeddings are points 0..MaxCoord on a line
MaxRefs == 2        \* num_referencias ranges over 1..MaxRefs
LongPad == 2        \* long inputs have RawLimit - LongPad .. RawLimit + LongPad characters
FieldPad == 2       \* references have FieldLimit - FieldPad .. FieldLimit + FieldPad fields
MaxChunks == 2      \* an import run has at most MaxChunks chunks of BatchSize documents
MaxFailures == 2    \* import runs that the environment makes fail
MaxThreads == 2      \* threads that construct EmbeddingService() and call it
MaxTexts == 2        \* texts in one get_embeddings_batch call
MaxBatch == 2       \* records in one add_tdrs_batch call of the index operations

-----------------------------------------------------------------------------
(* Characters and text *)

BQ == "BQ"
Quote == "\""
NL == "\n"

Fence == <<BQ, BQ, BQ>>
FenceJson == <<BQ, BQ, BQ, "j", "s", "o", "n">>

\* str.strip() and the JSON decoder agree on the whitespace of this alphabet
IsSpace(c) == c \in {" ", NL}

Digits == {"0", "1", "2", "3", "4", "5", "6", "7", "8", "9"}

Min(S) == CHOOSE m \in S : \A n \in S : m <= n
Max(S) == CHOOSE m \in S : \A n \in S : m >= n

StartsWith(s, p) == Len(s) >= Len(p) /\ SubSeq(s, 1, Len(p)) = p
EndsWith(s, p) == Len(s) >= Len(p) /\ SubSeq(s, Len(s) - Len(p) + 1, Len(s)) = p

\* s.strip()
Strip(s) ==
    LET keep == {i \in 1..Len(s) : ~IsSpace(s[i])}
    IN  IF keep = {} THEN <<>> ELSE SubSeq(s, Min(keep), Max(keep))

\* s[:n]
\* a slice that cuts nothing
PrefixWhole(s, n) == s

Prefix(s, n) == SubSeq(s, 1, IF Len(s) < n THEN Len(s) ELSE n)

\* s[n:]
DropFirst(s, n) == SubSeq(s, n + 1, Len(s))

\* s[:-n]
DropLast(s, n) == SubSeq(s, 1, Len(s) - n)

\* c * n
Repeat(c, n) == [i \in 1..n |-> c]

-----------------------------------------------------------------------------
(* JSON values.  Every value is a record of the same shape:                *)
(*   t    "obj" | "arr" | "str" | "num" | "null" | "none"                  *)
(*   s    the characters of a string, the digits of a number               *)
(*   keys the keys of an object, in insertion order                        *)
(*   kids the values of an object (aligned with keys) or of an array       *)
(* "none" is the absence of a value (no result yet).                       *)

JVal(t, s, keys, kids) == [t |-> t, s |-> s, keys |-> keys, kids |-> kids]
JNull == JVal("null", <<>>, <<>>, <<>>)
JNone == JVal("none", <<>>, <<>>, <<>>)
JNum(digits) == JVal("num", digits, <<>>, <<>>)
JStr(chars) == JVal("str", chars, <<>>, <<>>)
JArr(kids) == JVal("arr", <<>>, <<>>, kids)
JObj(keys, kids) == JVal("obj", <<>>, keys, kids)

IsMapping(v) == v.t = "obj"
HasKey(v, k) == IsMapping(v) /\ \E i \in 1..Len(v.keys) : v.keys[i] = k
Lookup(v, k) == v.kids[CHOOSE i \in 1..Len(v.keys) : v.keys[i] = k]

\* dict[key] = value: an existing key keeps its place and takes the new value
DictPut(keys, kids, k, v) ==
    IF \E i \in 1..Len(keys) : keys[i] = k
    THEN [keys |-> keys,
          kids |-> [i \in 1..Len(kids) |-> IF keys[i] = k THEN v ELSE kids[i]]]
    ELSE [keys |-> Append(keys, k), kids |-> Append(kids, v)]

\* Python's == on decoded values: dicts compare by key set, lists by position
RECURSIVE JEq(_, _)
JEq(a, b) ==
    /\ a.t = b.t
    /\ a.s = b.s
    /\ IF a.t = "obj"
       THEN /\ {a.keys[i] : i \in 1..Len(a.keys)} = {b.keys[i] : i \in 1..Len(b.keys)}
            /\ Len(a.keys) = Len(b.keys)
            /\ \A i \in 1..Len(a.keys) : JEq(a.kids[i], Lookup(b, a.keys[i]))
       ELSE /\ Len(a.kids) = Len(b.kids)
            /\ \A i \in 1..Len(a.kids) : JEq(a.kids[i], b.kids[i])

-----------------------------------------------------------------------------
(* json.dumps with the default separators (", " and ": ")                  *)

RECURSIVE Dumps(_), DumpItems(_, _)
Dumps(v) ==
    CASE v.t = "null" -> <<"n", "u", "l", "l">>
      [] v.t = "num"  -> v.s
      [] v.t = "str"  -> <<Quote>> \o v.s \o <<Quote>>
      [] v.t = "arr"  -> <<"[">> \o DumpItems(v, 1) \o <<"]">>
      [] v.t = "obj"  -> <<"{">> \o DumpItems(v, 1) \o <<"}">>

DumpItems(v, i) ==
    IF i > Len(v.kids) THEN <<>>
    ELSE (IF i > 1 THEN <<",", " ">> ELSE <<>>)
         \o (IF v.t = "obj" THEN <<Quote>> \o v.keys[i] \o <<Quote, ":", " ">> ELSE <<>>)
         \o Dumps(v.kids[i])
         \o DumpItems(v, i + 1)

-----------------------------------------------------------------------------
(* json.loads: the decoder of the standard library, over this alphabet.    *)
(* A scan returns [ok, v, end]: end is the index after the value.          *)

ScanFail == [ok |-> FALSE, v |-> JNone, end |-> 0]
ScanOk(v, end) == [ok |-> TRUE, v |-> v, end |-> end]

\* index of the first non-whitespace character at or after i (Len + 1 when none)
SkipWs(s, i) == Min({j \in i..(Len(s) + 1) : j > Len(s) \/ ~IsSpace(s[j])})

CharAt(s, i) == IF i >= 1 /\ i <= Len(s) THEN s[i] ELSE ""

\* scanstring, i being the index after the opening quote: a string ends at the
\* next quote and holds no control character
ScanString(s, i) ==
    LET closing == {j \in i..Len(s) : s[j] = Quote}
    IN  IF closing = {} THEN ScanFail
        ELSE LET j == Min(closing)
             IN  IF \E m \in i..(j - 1) : s[m] = NL THEN ScanFail
                 ELSE ScanOk(JStr(SubSeq(s, i, j - 1)), j + 1)

\* the number at i: 0, or a non-zero digit followed by digits
ScanNumber(s, i) ==
    IF s[i] = "0" THEN ScanOk(JNum(<<"0">>), i + 1)
    ELSE LET stop == Min({j \in (i + 1)..(Len(s) + 1) : j > Len(s) \/ s[j] \notin Digits})
         IN  ScanOk(JNum(SubSeq(s, i, stop - 1)), stop)

RECURSIVE ScanOnce(_, _), ScanMembers(_, _, _, _), ScanElements(_, _, _)

\* scan_once(s, i)
ScanOnce(s, i) ==
    IF i > Len(s) THEN ScanFail
    ELSE CASE s[i] = Quote -> ScanString(s, i + 1)
           [] s[i] = "{" ->
                LET j == SkipWs(s, i + 1)
                IN  IF CharAt(s, j) = "}" THEN ScanOk(JObj(<<>>, <<>>), j + 1)
                    ELSE IF CharAt(s, j) = Quote THEN ScanMembers(s, j + 1, <<>>, <<>>)
                    ELSE ScanFail
           [] s[i] = "[" ->
                LET j == SkipWs(s, i + 1)
                IN  IF CharAt(s, j) = "]" THEN ScanOk(JArr(<<>>), j + 1)
                    ELSE ScanElements(s, j, <<>>)
           [] s[i] = "n" ->
                IF i + 3 <= Len(s) /\ SubSeq(s, i, i + 3) = <<"n", "u", "l", "l">>
                THEN ScanOk(JNull, i + 4) ELSE ScanFail
           [] s[i] \in Digits -> ScanNumber(s, i)
           [] OTHER -> ScanFail

\* JSONObject's loop, i being the index after a key's opening quote
ScanMembers(s, i, keys, kids) ==
    LET k == ScanString(s, i)
    IN  IF ~k.ok THEN ScanFail
        ELSE LET colon == SkipWs(s, k.end)
             IN  IF CharAt(s, colon) # ":" THEN ScanFail
                 ELSE LET val == ScanOnce(s, SkipWs(s, colon + 1))
                      IN  IF ~val.ok THEN ScanFail
                          ELSE LET d == DictPut(keys, kids, k.v.s, val.v)
                                   nxt == SkipWs(s, val.end)
                               IN  IF CharAt(s, nxt) = "}"
                                   THEN ScanOk(JObj(d.keys, d.kids), nxt + 1)
                                   ELSE IF CharAt(s, nxt) # "," THEN ScanFail
                                   ELSE LET q == SkipWs(s, nxt + 1)
                                        IN  IF CharAt(s, q) # Quote THEN ScanFail
                                            ELSE ScanMembers(s, q + 1, d.keys, d.kids)

\* JSONArray's loop, i being the index of the next element
ScanElements(s, i, kids) ==
    LET val == ScanOnce(s, i)
    IN  IF ~val.ok THEN ScanFail
        ELSE LET nxt == SkipWs(s, val.end)
             IN  IF CharAt(s, nxt) = "]"
                 THEN ScanOk(JArr(Append(kids, val.v)), nxt + 1)
                 ELSE IF CharAt(s, nxt) # "," THEN ScanFail
                 ELSE ScanElements(s, SkipWs(s, nxt + 1), Append(kids, val.v))

\* json.loads(s): [ok, v]; ok = FALSE is JSONDecodeError
JsonLoads(s) ==
    LET r == ScanOnce(s, SkipWs(s, 1))
    IN  IF r.ok /\ SkipWs(s, r.end) = Len(s) + 1
        THEN [ok |-> TRUE, v |-> r.v]
        ELSE [ok |-> FALSE, v |-> JNone]

-----------------------------------------------------------------------------
(* RAGService._parse_json_response                                         *)

RawLimit == 500

ErrorMessage == <<"N", "o", " ", "s", "e", " ", "p", "u", "d", "o">>

\* StripFences without the endswith test of line 299
StripFencesNoEndCheck(text) ==
    LET a == Strip(text)
        b == IF StartsWith(a, FenceJson) THEN DropFirst(a, 7) ELSE a
        c == IF StartsWith(b, Fence) THEN DropFirst(b, 3) ELSE b
        d == IF Len(c) >= 3 THEN DropLast(c, 3) ELSE c
    IN  Strip(d)

\* lines 294-301: trim, drop a leading fence, drop a trailing fence, trim
StripFences(text) ==
    LET a == Strip(text)
        b == IF StartsWith(a, FenceJson) THEN DropFirst(a, 7) ELSE a
        c == IF StartsWith(b, Fence) THEN DropFirst(b, 3) ELSE b
        d == IF EndsWith(c, Fence) THEN DropLast(c, 3) ELSE c
    IN  Strip(d)

\* re.search(r'\{[\s\S]*\}', text): from the first "{" to the last "}" after it
HasSpan(text) ==
    LET opens == {i \in 1..Len(text) : text[i] = "{"}
        closes == {j \in 1..Len(text) : text[j] = "}"}
    IN  opens # {} /\ closes # {} /\ Min(opens) < Max(closes)

\* ExtractSpan with a lazy quantifier: up to the first "}" after the first "{"
ExtractSpanLazy(text) ==
    LET first == Min({i \in 1..Len(text) : text[i] = "{"})
        close == Min({j \in (first + 1)..Len(text) : text[j] = "}"})
    IN  SubSeq(text, first, close)

ExtractSpan(text) ==
    LET first == Min({i \in 1..Len(text) : text[i] = "{"})
        last == Max({j \in 1..Len(text) : text[j] = "}"})
    IN  SubSeq(text, first, last)

\* ErrorPayload without the [:500] cut
ErrorPayloadUncut(text) ==
    JObj(<< <<"e", "r", "r", "o", "r">>, <<"r", "a", "w">> >>,
         <<JStr(ErrorMessage), JStr(text)>>)

\* line 312
ErrorPayload(text) ==
    JObj(<< <<"e", "r", "r", "o", "r">>, <<"r", "a", "w">> >>,
         <<JStr(ErrorMessage), JStr(Prefix(text, RawLimit))>>)

ParseJsonResponse(text) ==
    LET stripped == StripFences(text)
        strict == JsonLoads(stripped)
    IN  IF strict.ok THEN strict.v
        ELSE IF HasSpan(stripped) /\ JsonLoads(ExtractSpan(stripped)).ok
             THEN JsonLoads(ExtractSpan(stripped)).v
             ELSE ErrorPayload(stripped)

-----------------------------------------------------------------------------
(* Exact rationals [num, den], den > 0.  The program computes in binary     *)
(* floating point; its rounding is not modelled.                           *)

Rat(n, d) == [num |-> n, den |-> d]
RatLe(a, b) == a.num * b.den <= b.num * a.den
RatLt(a, b) == a.num * b.den < b.num * a.den
RatAdd(a, b) == Rat(a.num * b.den + b.num * a.den, a.den * b.den)
RatDivInt(a, n) == Rat(a.num, a.den * n)

-----------------------------------------------------------------------------
(* backend/app/db/models.py *)

TdrTipo == {"BIEN", "OBRA", "CONSULTORIA_OBRA", "SERVICIO"}

NoTipo == "None"

Coords == 0..MaxCoord

-----------------------------------------------------------------------------
(* backend/app/services/embeddings.py: EmbeddingService.create_tdr_text    *)

\* the characters of a TdrTipo value
TipoText(tipo) ==
    CASE tipo = "BIEN" -> <<"B", "I", "E", "N">>
      [] tipo = "OBRA" -> <<"O", "B", "R", "A">>
      [] tipo = "CONSULTORIA_OBRA" -> <<"C", "O", "N", "S", "U", "L", "T", "O", "R", "I", "A", "_", "O", "B", "R", "A">>
      [] tipo = "SERVICIO" -> <<"S", "E", "R", "V", "I", "C", "I", "O">>

\* sep.join(parts)
RECURSIVE Join(_, _)
Join(parts, sep) ==
    IF parts = <<>> THEN <<>>
    ELSE IF Len(parts) = 1 THEN parts[1]
    ELSE parts[1] \o sep \o Join(Tail(parts), sep)

\* line 118 of rag.py, line 63 here: the truth value of a decoded JSON value
Truthy(v) ==
    CASE v.t = "null" -> FALSE
      [] v.t = "num"  -> v.s # <<"0">>
      [] v.t = "str"  -> v.s # <<>>
      [] v.t = "arr"  -> v.kids # <<>>
      [] v.t = "obj"  -> v.kids # <<>>

\* str(value) of a string, an integer or None
Str(v) ==
    CASE v.t = "str"  -> v.s
      [] v.t = "num"  -> v.s
      [] v.t = "null" -> <<"N", "o", "n", "e">>

\* lines 48-60
PriorityFields ==
    <<<<"o", "b", "j", "e", "t", "o", "_", "c", "o", "n", "t", "r", "a", "t", "a", "c", "i", "o", "n">>,
      <<"d", "e", "n", "o", "m", "i", "n", "a", "c", "i", "o", "n", "_", "s", "e", "r", "v", "i", "c", "i", "o">>,
      <<"d", "e", "n", "o", "m", "i", "n", "a", "c", "i", "o", "n", "C", "o", "n", "t", "r", "a", "t", "a", "c", "i", "o", "n">>,
      <<"f", "i", "n", "a", "l", "i", "d", "a", "d", "_", "p", "u", "b", "l", "i", "c", "a">>,
      <<"f", "i", "n", "a", "l", "i", "d", "a", "d", "P", "u", "b", "l", "i", "c", "a">>,
      <<"a", "l", "c", "a", "n", "c", "e">>,
      <<"a", "l", "c", "a", "n", "c", "e", "D", "e", "s", "c", "r", "i", "p", "c", "i", "o", "n", "S", "e", "r", "v", "i", "c", "i", "o">>,
      <<"s", "e", "r", "v", "i", "c", "i", "o", "s", "_", "r", "e", "q", "u", "e", "r", "i", "d", "o", "s">>,
      <<"r", "e", "q", "u", "i", "s", "i", "t", "o", "s", "_", "t", "e", "c", "n", "i", "c", "o", "s", "_", "m", "i", "n", "i", "m", "o", "s">>,
      <<"p", "e", "r", "f", "i", "l", "_", "p", "r", "o", "f", "e", "s", "i", "o", "n", "a", "l">>,
      <<"e", "n", "t", "r", "e", "g", "a", "b", "l", "e", "s">>>>

Bar == <<" ", "|", " ">>

\* lines 68-71: the truthy values of the first three dicts of a list
RECURSIVE ItemValues(_, _)
ItemValues(items, k) ==
    IF k > Len(items) \/ k > 3 THEN <<>>
    ELSE SelectSeq([j \in 1..Len(items[k].kids) |-> items[k].kids[j]], Truthy)
         \o ItemValues(items, k + 1)

\* lines 64-75: the text a field's value contributes
FieldText(value) ==
    CASE value.t = "arr" ->
            IF value.kids[1].t = "obj"
            THEN LET vals == ItemValues(value.kids, 1)
                 IN  Join([j \in 1..Len(vals) |-> Str(vals[j])], Bar)
            ELSE Join([j \in 1..Min({Len(value.kids), 5}) |-> Str(value.kids[j])], Bar)
      [] value.t = "obj" ->
            Join([j \in 1..Min({Len(value.kids), 5}) |->
                    value.keys[j] \o <<":", " ">> \o Str(value.kids[j])], Bar)
      [] OTHER -> Str(value)

\* lines 62-77: the parts of the priority fields from the k-th on
RECURSIVE FieldParts(_, _)
FieldParts(fields, k) ==
    IF k > Len(PriorityFields) THEN <<>>
    ELSE LET field == PriorityFields[k]
         IN  (IF HasKey(fields, field) /\ Truthy(Lookup(fields, field))
              THEN <<field \o <<":", " ">> \o FieldText(Lookup(fields, field))>>
              ELSE <<>>)
             \o FieldParts(fields, k + 1)

\* lines 38-79
CreateTdrText(fields, tipo) ==
    Join(<<<<"T", "i", "p", "o", ":", " ">> \o TipoText(tipo)>> \o FieldParts(fields, 1), <<NL>>)

\* lines 66-71: item.values() of an item that is no dict raises AttributeError.
\* The list is taken for a list of dicts by its first item alone, and the
\* first three items are asked for their values
FieldRaises(value) ==
    /\ value.t = "arr"
    /\ Truthy(value)
    /\ value.kids[1].t = "obj"
    /\ \E k \in 1..Min({Len(value.kids), 3}) : value.kids[k].t # "obj"

\* lines 62-77: the call raises when the value of a priority field does
CreateTdrTextRaises(fields) ==
    \E k \in 1..Len(PriorityFields) :
        /\ HasKey(fields, PriorityFields[k])
        /\ FieldRaises(Lookup(fields, PriorityFields[k]))

\* create_tdr_text has not been called
NoTdrText ==
    [step |-> "none", fields |-> JNone, tipo |-> NoTipo, outcome |-> "none", text |-> <<>>]

\* no import run whose ids are looked at
NoIdRun == [step |-> "none", script |-> "none", docs |-> <<>>, ids |-> <<>>, outcome |-> "none"]

\* no document on its way through an ingestion path
NoTrip ==
    [step |-> "none", path |-> "none", fields |-> JNone, metadata |-> <<>>,
     searched |-> "no", searchFields |-> JNone, got |-> FALSE, getFields |-> JNone]

\* lines 38-79: what a call gives, a text or an exception
CreateTdrTextCall(fields, tipo) ==
    IF CreateTdrTextRaises(fields)
    THEN [step |-> "called", fields |-> fields, tipo |-> tipo, outcome |-> "raised",
          text |-> <<>>]
    ELSE [step |-> "called", fields |-> fields, tipo |-> tipo, outcome |-> "returned",
          text |-> CreateTdrText(fields, tipo)]

-----------------------------------------------------------------------------
(* backend/app/services/embeddings.py: the EmbeddingService singleton      *)

Threads == 1..MaxThreads

\* no embedding call yet
NoEmbedding == [op |-> "none", texts |-> <<>>, outcome |-> "none", vectors |-> 0, model |-> 0]

\* embeddings.py 13-14: _instance and _model are None in the class body; no
\* thread constructs, nothing has been called.  instance and model number the
\* objects in the order they are created (0 is None)
NoEmbeddingService ==
    [imported |-> "no", instance |-> 0, instances |-> 0, model |-> 0, loads |-> 0,
     tpc |-> [t \in Threads |-> "idle"], self |-> [t \in Threads |-> 0],
     returned |-> {}, out |-> NoEmbedding]

\* __new__ always making an instance
EmbeddingNewAlways(svc) == [svc EXCEPT !.instances = @ + 1, !.instance = svc.instances + 1]

\* embeddings.py 16-19
EmbeddingNew(svc) ==
    IF svc.instance = 0
    THEN [svc EXCEPT !.instances = @ + 1, !.instance = svc.instances + 1]
    ELSE svc

\* __init__ loading the model at every construction
EmbeddingInitAlways(svc) == [svc EXCEPT !.loads = @ + 1, !.model = svc.loads + 1]

\* embeddings.py 21-26, when SentenceTransformer(...) returns
EmbeddingInit(svc) ==
    IF svc.model = 0
    THEN [svc EXCEPT !.loads = @ + 1, !.model = svc.loads + 1]
    ELSE svc

\* embeddings.py 28-36: encode and tolist, nothing around them: what the call
\* gives for the texts, when the encoder fails and when it does not
Encode(svc, op, texts, encoderFails) ==
    IF encoderFails
    THEN [op |-> op, texts |-> texts, outcome |-> "raised", vectors |-> 0, model |-> svc.model]
    ELSE [op |-> op, texts |-> texts, outcome |-> "returned", vectors |-> Len(texts),
          model |-> svc.model]

-----------------------------------------------------------------------------
(* backend/app/db/chroma.py: the collection and ChromaDBClient.search      *)

\* the store's distance between two embeddings (squared L2, the default space)
Distance(q, e) == (q - e) * (q - e)

StoredIds(coll) == {coll[i].id : i \in 1..Len(coll)}

\* metadata.get(key, default); a metadata is a function from the keys it has
MetaGet(metadata, key, default) ==
    IF key \in DOMAIN metadata THEN metadata[key] ELSE default

AddDone(coll) == [error |-> "none", coll |-> coll]
AddRaised(error, coll) == [error |-> error, coll |-> coll]

\* the records of one add call whose id is not stored yet, in the call's order
RECURSIVE NewRecords(_, _, _, _, _, _)
NewRecords(coll, ids, embeddings, metadatas, documents, k) ==
    IF k > Len(ids) THEN <<>>
    ELSE (IF ids[k] \in StoredIds(coll) THEN <<>>
          ELSE <<[id |-> ids[k], embedding |-> embeddings[k],
                  metadata |-> metadatas[k], document |-> documents[k]]>>)
         \o NewRecords(coll, ids, embeddings, metadatas, documents, k + 1)

\* CollectionAdd pairing the lists up to the shortest one, as zip does
CollectionAddZip(coll, ids, embeddings, metadatas, documents) ==
    LET n == Min({Len(ids), Len(embeddings), Len(metadatas), Len(documents)})
    IN  IF \E a, b \in 1..n : a # b /\ ids[a] = ids[b]
        THEN AddRaised("DuplicateIDError", coll)
        ELSE AddDone(coll \o NewRecords(coll, SubSeq(ids, 1, n), embeddings, metadatas,
                                         documents, 1))

\* CollectionAdd as an upsert: a record whose id is stored replaces the stored one
CollectionUpsert(coll, ids, embeddings, metadatas, documents) ==
    IF ~(Len(embeddings) = Len(ids) /\ Len(metadatas) = Len(ids) /\ Len(documents) = Len(ids))
    THEN AddRaised("ValueError", coll)
    ELSE IF \E a, b \in 1..Len(ids) : a # b /\ ids[a] = ids[b]
    THEN AddRaised("DuplicateIDError", coll)
    ELSE AddDone([i \in 1..Len(coll) |->
                    IF \E k \in 1..Len(ids) : ids[k] = coll[i].id
                    THEN LET k == CHOOSE k \in 1..Len(ids) : ids[k] = coll[i].id
                         IN  [id |-> ids[k], embedding |-> embeddings[k],
                              metadata |-> metadatas[k], document |-> documents[k]]
                    ELSE coll[i]]
                 \o NewRecords(coll, ids, embeddings, metadatas, documents, 1))

\* _collection.add(ids, embeddings, metadatas, documents): the store validates
\* the record set before it writes anything (lists of unequal length:
\* ValueError; an id twice in the call: DuplicateIDError), then stores the
\* records in order; a record whose id is already stored is left out
CollectionAdd(coll, ids, embeddings, metadatas, documents) ==
    IF ~(Len(embeddings) = Len(ids) /\ Len(metadatas) = Len(ids) /\ Len(documents) = Len(ids))
    THEN AddRaised("ValueError", coll)
    ELSE IF \E a, b \in 1..Len(ids) : a # b /\ ids[a] = ids[b]
    THEN AddRaised("DuplicateIDError", coll)
    ELSE AddDone(coll \o NewRecords(coll, ids, embeddings, metadatas, documents, 1))

\* WhereMatches letting every document pass
WhereMatchesAny(metadata, where) == TRUE

\* the where filter {"tipo": value}: the documents whose metadata has that value
WhereMatches(metadata, where) ==
    where = NoTipo \/ ("tipo" \in DOMAIN metadata /\ metadata["tipo"] = where)

\* _collection.query(query_embeddings=[q], n_results=n, where=...), where being
\* the tipo to match or NoTipo for no filter (lines 91-93): every answer
\* the store may give: the n nearest documents that pass the filter (fewer when
\* fewer pass), nearest first; documents at the same distance in either order
CollectionQuery(coll, q, n, where) ==
    LET match == {i \in 1..Len(coll) : WhereMatches(coll[i].metadata, where)}
        size == IF Cardinality(match) < n THEN Cardinality(match) ELSE n
        dist(i) == Distance(q, coll[i].embedding)
        picks == {f \in [1..size -> match] :
                    /\ \A a, b \in 1..size : a < b => f[a] # f[b] /\ dist(f[a]) <= dist(f[b])
                    /\ \A a \in 1..size : \A j \in match :
                          (\A b \in 1..size : f[b] # j) => dist(f[a]) <= dist(j)}
    IN  {[k \in 1..size |-> [id |-> coll[f[k]].id,
                             metadata |-> coll[f[k]].metadata,
                             distance |-> dist(f[k])]] : f \in picks}

\* Similarity with the division binding first: 1 / 1 + distance
SimilarityPrecedence(distance) == Rat(1 + distance, 1)

\* line 109
Similarity(distance) == Rat(1, 1 + distance)

\* ParseFields letting the decoder's exception escape: no fields at all
ParseFieldsEscaping(metadata) ==
    IF "fields_json" \in DOMAIN metadata
    THEN LET r == JsonLoads(metadata["fields_json"])
         IN  IF r.ok THEN r.v ELSE JNone
    ELSE JObj(<<>>, <<>>)

\* lines 112-117: the fields of a result; metadata without fields_json, or
\* with a fields_json that json.loads rejects, gives the empty dict
ParseFields(metadata) ==
    IF "fields_json" \in DOMAIN metadata
    THEN LET r == JsonLoads(metadata["fields_json"])
         IN  IF r.ok THEN r.v ELSE JObj(<<>>, <<>>)
    ELSE JObj(<<>>, <<>>)

\* lines 119-125: the TdrSearchResult built for one row
SearchResult(row) ==
    [id |-> row.id,
     filename |-> MetaGet(row.metadata, "filename", ""),
     tipo |-> MetaGet(row.metadata, "tipo", "SERVICIO"),
     similarity |-> Similarity(row.distance),
     fields |-> ParseFields(row.metadata)]

\* models.py lines 29-35: TdrTipo(value) and fields: dict[str, Any] are checked
\* when the TdrSearchResult is constructed
SearchResultValid(result) == result.tipo \in TdrTipo /\ IsMapping(result.fields)

\* SearchResults inserting each result at the front
SearchResultsReversed(rows) ==
    [k \in 1..Len(rows) |-> SearchResult(rows[Len(rows) + 1 - k])]

\* lines 102-127: one TdrSearchResult per row, appended in the rows' order
SearchResults(rows) == [k \in 1..Len(rows) |-> SearchResult(rows[k])]

\* search raises when one of its results cannot be constructed
SearchRaises(rows) == \E k \in 1..Len(rows) : ~SearchResultValid(SearchResult(rows[k]))

\* lines 45-48 and 159-162: the name and the metadata the collection is created with
CollectionConfig ==
    [name |-> "chroma_collection_name", description |-> "TDRs del estado peruano"]

\* CountBy leaving out the documents that lack the key
CountByPresent(coll, key) ==
    LET has == {i \in 1..Len(coll) : key \in DOMAIN coll[i].metadata}
    IN  [v \in {coll[i].metadata[key] : i \in has} |->
            Cardinality({i \in has : coll[i].metadata[key] = v})]

\* lines 137-145: the keys that occur, each with the number of its occurrences
CountBy(coll, key) ==
    LET value(i) == MetaGet(coll[i].metadata, key, "UNKNOWN")
    IN  [v \in {value(i) : i \in 1..Len(coll)} |->
            Cardinality({i \in 1..Len(coll) : value(i) = v})]

\* lines 129-154
GetStatsResult(coll) ==
    IF Len(coll) > 0
    THEN [total_tdrs |-> Len(coll), por_tipo |-> CountBy(coll, "tipo"),
          por_categoria |-> CountBy(coll, "category")]
    ELSE [total_tdrs |-> Len(coll), por_tipo |-> <<>>, por_categoria |-> <<>>]

NoStats == [total_tdrs |-> -1, por_tipo |-> <<>>, por_categoria |-> <<>>]

\* a call on the client: the method, the exception it raised or "none", the
\* ids and the lengths of the four lists of an add, the number of documents
\* stored when the call was made, the statistics get_stats returned
Call(op, error, ids, lens, before, stats) ==
    [op |-> op, error |-> error, ids |-> ids, lens |-> lens, before |-> before,
     stats |-> stats]

\* no get_stats call in flight
NoStatsFlow == [step |-> "idle", count |-> 0, stale |-> FALSE, result |-> NoStats]

\* lines 137-154 with the count of line 131: what get_stats returns when the
\* enumeration finds coll
GetStatsReturn(count, coll) ==
    IF count > 0
    THEN [total_tdrs |-> count, por_tipo |-> CountBy(coll, "tipo"),
          por_categoria |-> CountBy(coll, "category")]
    ELSE [total_tdrs |-> count, por_tipo |-> <<>>, por_categoria |-> <<>>]

NoLens == <<0, 0, 0, 0>>

NoCall == Call("none", "none", <<>>, NoLens, 0, NoStats)

-----------------------------------------------------------------------------
(* backend/app/api/tdr.py: what add_tdr hands to ChromaDBClient.add_tdr    *)

\* line 226: the characters kept of the encoded campos
FieldsJsonCap == 10000

\* no add_tdr request in flight
NoAddFlow ==
    [step |-> "idle", id |-> 0, embedding |-> 0,
     req |-> [tipo |-> "None", titulo |-> "", campos |-> JNone], raisedAt |-> "none"]

\* line 220
TituloFilename(titulo) ==
    CASE titulo = "t1" -> "t1.json"
      [] titulo = "t2" -> "t2.json"

\* line 221
UsuarioCategory(tipo) ==
    CASE tipo = "BIEN" -> "Usuario_BIEN"
      [] tipo = "OBRA" -> "Usuario_OBRA"
      [] tipo = "CONSULTORIA_OBRA" -> "Usuario_CONSULTORIA_OBRA"
      [] tipo = "SERVICIO" -> "Usuario_SERVICIO"

\* lines 219-227 (created_by and created_at, which nothing reads, left out)
AddTdrMetadata(req) ==
    [filename |-> TituloFilename(req.titulo),
     category |-> UsuarioCategory(req.tipo),
     tipo |-> req.tipo,
     source |-> "frontend",
     fields_json |-> Prefix(Dumps(req.campos), FieldsJsonCap)]

\* lines 210-213
AddTdrDocument(req) == CreateTdrText(req.campos, req.tipo)

-----------------------------------------------------------------------------
(* backend/scripts/import_tdrs.py (load_tdrs.py has the same shape)        *)

\* import_tdrs.py line 111, load_tdrs.py line 144
BatchSize == 50

\* import_tdrs.py line 61: the characters kept of the encoded fields
ImportFieldsJsonCap == 50000

\* import_tdrs.py line 65: the ids of the n documents of a run, in the order of
\* all_tdrs.  Documents same and same + 1 (when same > 0) get one id: two
\* files of one tipo with the same filename
ImportIds(n, same) == [k \in 1..n |-> IF same > 0 /\ k = same + 1 THEN same ELSE k]

\* import_tdrs.py lines 56-62
ImportMetadata(fields) ==
    [filename |-> "f1.pdf", tipo |-> "SERVICIO", category |-> "Servicio", page_count |-> 1,
     fields_json |-> Prefix(Dumps(fields), ImportFieldsJsonCap)]

\* import_tdrs.py lines 114-118, 123-124: the number of chunks of n documents
Chunks(n) == (n + BatchSize - 1) \div BatchSize

\* import_tdrs.py lines 123-132: the slice [i:end] of the p-th chunk
ChunkOf(list, p) ==
    SubSeq(list, (p - 1) * BatchSize + 1, Min({p * BatchSize, Len(list)}))

\* the state of the script: the lists it builds (lines 105-118) and the chunk
\* it is at
NoImport ==
    [status |-> "none", n |-> 0, same |-> 0, ids |-> <<>>, embeddings |-> <<>>,
     metadatas |-> <<>>, documents |-> <<>>, next |-> 0, failures |-> 0, startedWith |-> 0]

-----------------------------------------------------------------------------
(* backend/app/services/rag.py: RAGService.generate_fields                 *)

NoRequest == [tipo |-> NoTipo, num_referencias |-> 0]

\* lines 71-73: a part "k: v" per item of campos_parciales
CamposParts(campos) ==
    IF Truthy(campos)
    THEN [j \in 1..Len(campos.keys) |-> campos.keys[j] \o <<":", " ">> \o Str(campos.kids[j])]
    ELSE <<>>

\* lines 66-75: the query generate_fields builds; an argument that is None is JNull
QueryText(tipo, descripcion_inicial, objeto_contratacion, campos_parciales) ==
    Join(<<<<"T", "i", "p", "o", ":", " ">> \o TipoText(tipo)>>
         \o (IF Truthy(descripcion_inicial) THEN <<Str(descripcion_inicial)>> ELSE <<>>)
         \o (IF Truthy(objeto_contratacion) THEN <<Str(objeto_contratacion)>> ELSE <<>>)
         \o CamposParts(campos_parciales),
         <<NL>>)

\* lines 40-41: search_similar_tdrs embeds the query string as it is given
EmbeddedQuery(query) == query

NoConfidence == Rat(0, 1)

NoResponse ==
    [success |-> FALSE, tipo |-> NoTipo, campos_sugeridos |-> JNone,
     referencias_usadas |-> <<>>, confidence |-> NoConfidence]

\* no invocation is kept
NoTwin ==
    [set |-> FALSE, pc |-> "none", request |-> NoRequest, storeResult |-> <<>>,
     content |-> <<>>, referencias |-> <<>>, response |-> NoResponse]

\* NoReferences taking a single reference for none
NoReferencesBelowTwo(refs) == Len(refs) < 2

\* line 80: "if not referencias"
NoReferences(refs) == refs = <<>>

\* line 117: the fields of a reference that are looked at
FieldLimit == 15

\* lines 120 and 122: the characters kept of a rendered value
ValueLimit == 500

\* lines 119-122: a list or dict is JSON-encoded, anything else stringified,
\* and the text is cut
ValueStr(v) ==
    IF v.t \in {"arr", "obj"} THEN Prefix(Dumps(v), ValueLimit)
    ELSE Prefix(Str(v), ValueLimit)

\* FieldLines looking at every item
RECURSIVE FieldLinesAll(_, _)
FieldLinesAll(fields, k) ==
    IF k > Len(fields.keys) THEN <<>>
    ELSE (IF Truthy(fields.kids[k])
          THEN <<[key |-> fields.keys[k], value |-> ValueStr(fields.kids[k])]>>
          ELSE <<>>)
         \o FieldLinesAll(fields, k + 1)

\* lines 117-123: a line per truthy value among the first FieldLimit items
RECURSIVE FieldLines(_, _)
FieldLines(fields, k) ==
    IF k > Len(fields.keys) \/ k > FieldLimit THEN <<>>
    ELSE (IF Truthy(fields.kids[k])
          THEN <<[key |-> fields.keys[k], value |-> ValueStr(fields.kids[k])]>>
          ELSE <<>>)
         \o FieldLines(fields, k + 1)

\* lines 107-127: one block per reference, numbered from 1: the header with the
\* rank and the similarity, the file, the tipo, the field lines
BuildContext(refs) ==
    [k \in 1..Len(refs) |-> [rank |-> k, filename |-> refs[k].filename,
                             tipo |-> refs[k].tipo, similarity |-> refs[k].similarity,
                             lines |-> FieldLines(refs[k].fields, 1)]]

NoContext == <<>>

\* _build_context has not run
NotBuilt == [built |-> FALSE, blocks |-> <<>>]

\* lines 265-269: the prompt of _generate_without_context
ShortPrompt(tipo) == [kind |-> "short", tipo |-> tipo, contexto |-> NoContext]

\* lines 214-244: the prompt of _generate_with_gemini
FullPrompt(tipo, contexto) == [kind |-> "full", tipo |-> tipo, contexto |-> contexto]

\* lines 80-94, 246, 271: the generate_content calls one generate_fields makes
GeneratorPrompts(tipo, refs) ==
    IF NoReferences(refs) THEN <<ShortPrompt(tipo)>>
    ELSE <<FullPrompt(tipo, BuildContext(refs))>>

RECURSIVE SumSimilarity(_, _)
SumSimilarity(refs, k) ==
    IF k = 0 THEN Rat(0, 1) ELSE RatAdd(SumSimilarity(refs, k - 1), refs[k].similarity)

\* AvgSimilarity dividing by the number of references asked for
AvgSimilarityByLimit(refs) ==
    RatDivInt(SumSimilarity(refs, Len(refs)), request.num_referencias)

\* line 97
AvgSimilarity(refs) == RatDivInt(SumSimilarity(refs, Len(refs)), Len(refs))

\* line 287
NoContextConfidence == Rat(3, 10)

\* ResponseSuccess reporting a parse failure as a failed request
ResponseSuccessUnlessError(campos) == ~HasKey(campos, <<"e", "r", "r", "o", "r">>)

\* lines 100, 283
ResponseSuccess(campos) == TRUE

\* lines 99-105 and 282-288: the fields handed to GenerateFieldsResponse
BuildResponse(tipo, refs, campos) ==
    IF NoReferences(refs)
    THEN [success |-> ResponseSuccess(campos), tipo |-> tipo, campos_sugeridos |-> campos,
          referencias_usadas |-> <<>>, confidence |-> NoContextConfidence]
    ELSE [success |-> ResponseSuccess(campos), tipo |-> tipo, campos_sugeridos |-> campos,
          referencias_usadas |-> refs, confidence |-> AvgSimilarity(refs)]

\* models.py lines 47-53: campos_sugeridos: dict[str, Any] is validated on construction
ResponseValid(resp) == IsMapping(resp.campos_sugeridos)

-----------------------------------------------------------------------------
(* Inputs of the model *)

ObjEmpty == JObj(<<>>, <<>>)
ObjNum == JObj(<< <<"a">> >>, <<JNum(<<"1">>)>>)
ObjTwo == JObj(<< <<"a">>, <<"n">> >>, <<JStr(<<"x">>), JNull>>)
ObjList == JObj(<< <<"l">> >>, <<JArr(<<JNum(<<"1">>), JNum(<<"1", "0">>)>>)>>)
ObjNested == JObj(<< <<"a">> >>, <<JObj(<< <<"n">> >>, <<JNum(<<"1">>)>>)>>)
ObjBraceText == JObj(<< <<"a", "}">> >>, <<JStr(<<"{", "x">>)>>)

\* the JSON objects X a reply may carry
Objects == {ObjEmpty, ObjNum, ObjTwo, ObjList, ObjNested, ObjBraceText}

\* text before the object: nothing, whitespace, an opening fence (bare, tagged
\* json, tagged js), prose without braces, prose with braces, a bracket
LeadFences == {Fence \o <<NL>>, FenceJson \o <<NL>>, <<" ">> \o FenceJson,
               Fence \o <<"j", "s", NL>>}
LeadBlank == {<<>>, <<" ", NL>>}
LeadProse == {<<"o", "k", ":", " ">>, <<"a", NL>>}
LeadBraces == {<<"{", "a", "}", " ">>, <<"a", " ", "{", " ">>, <<"}", " ">>}
LeadJson == {<<"[">>}
Leads == LeadFences \cup LeadBlank \cup LeadProse \cup LeadBraces \cup LeadJson

\* text after the object, likewise
TrailFences == {<<NL>> \o Fence, Fence \o <<NL, " ">>}
TrailBlank == {<<>>, <<NL>>}
TrailProse == {<<" ", "o", "k">>, <<".">>}
TrailBraces == {<<" ", "{", "x", "}">>, <<" ", "}">>, <<" ", "{">>}
TrailJson == {<<"]">>}
Trails == TrailFences \cup TrailBlank \cup TrailProse \cup TrailBraces \cup TrailJson

HasBrace(text) == \E i \in 1..Len(text) : text[i] \in {"{", "}"}

\* replies that are no wrapped object: JSON that is no object, and garbage
NonObjectJson == {<<"[", "1", "]">>, <<"1">>, <<Quote, "a", Quote>>,
                  <<"n", "u", "l", "l">>, <<" ", "[", "]", NL>>}
Garbage == {<<>>, <<" ">>, <<"x">>, <<" ", "x", " ", "a", NL>>, <<"n", "u", "l">>,
            <<"{">>, <<"}", "{">>, <<"{", "a", "}">>, <<"[", "1">>, Fence, FenceJson,
            <<NL>> \o FenceJson \o <<"{", "a", ":">> \o Fence}
LongGarbage ==
    {Repeat("a", n) : n \in (RawLimit - LongPad)..(RawLimit + LongPad)}
    \cup {<<" ">> \o Repeat("x", n) \o <<"{">> : n \in (RawLimit - LongPad)..(RawLimit + LongPad)}
RawInputs == NonObjectJson \cup Garbage \cup LongGarbage

\* the AddTdrRequests of the request flow
CamposBien == JObj(<<<<"a", "l", "c", "a", "n", "c", "e">>>>, <<JStr(<<"p", "c">>)>>)
CamposServicio ==
    JObj(<<<<"o", "b", "j", "e", "t", "o", "_", "c", "o", "n", "t", "r", "a", "t", "a", "c", "i", "o", "n">>, <<"n">>>>, <<JStr(<<"l", "i", "m">>), JNum(<<"2">>)>>)
AddTdrRequests ==
    {[tipo |-> "BIEN", titulo |-> "t1", campos |-> CamposBien],
     [tipo |-> "SERVICIO", titulo |-> "t2", campos |-> CamposServicio]}

\* the records callers hand to add_tdrs_batch, by id: one whose fields_json lost
\* its end (what the cut of load_tdrs.py line 98 leaves of an encoding over the
\* cap), one whose metadata has neither tipo nor category, one of load_tdrs.py
SourceMetadata(id) ==
    CASE id % 3 = 1 -> [filename |-> "f1.pdf", category |-> "Servicio", tipo |-> "SERVICIO",
                        fields_json |-> DropLast(Dumps(CamposServicio), 1)]
      [] id % 3 = 2 -> [filename |-> "f2.pdf", fields_json |-> Dumps(CamposBien)]
      [] id % 3 = 0 -> [filename |-> "f3.pdf", category |-> "Bien", tipo |-> "BIEN",
                        fields_json |-> Prefix(Dumps(CamposBien), FieldsJsonCap)]
SourceEmbedding(id) == id % (MaxCoord + 1)
SourceDocument(id) ==
    CASE id % 3 = 1 -> CreateTdrText(CamposServicio, "SERVICIO")
      [] id % 3 = 2 -> CreateTdrText(CamposBien, "SERVICIO")
      [] id % 3 = 0 -> CreateTdrText(CamposBien, "BIEN")

\* how the four lists of an add_tdrs_batch call relate: aligned, an id twice,
\* or one of the lists an element short
BatchShapes == {"aligned", "duplicate", "ids", "embeddings", "metadatas", "documents"}

\* the decimal digits of a number below 100
NatText(n) ==
    LET digit(d) == <<"0", "1", "2", "3", "4", "5", "6", "7", "8", "9">>[d + 1]
    IN  IF n < 10 THEN <<digit(n)>> ELSE <<digit(n \div 10), digit(n % 10)>>

\* fields k1 .. kn; every gap-th value is falsy ("" for gap 2, null for gap 3)
ManyFields(n, gap) ==
    JObj([i \in 1..n |-> <<"k">> \o NatText(i)],
         [i \in 1..n |-> IF gap > 0 /\ i % gap = 0
                         THEN (IF gap = 2 THEN JStr(<<>>) ELSE JNull)
                         ELSE JStr(<<"v">> \o NatText(i))])

\* one field whose value is long: a string, a number, a list, a dict
LongField(kind, m) ==
    JObj(<< <<"k">> >>,
         <<CASE kind = "str" -> JStr(Repeat("x", m))
             [] kind = "num" -> JNum(Repeat("7", m))
             [] kind = "arr" -> JArr(<<JStr(Repeat("x", m)), JNum(<<"1">>)>>)
             [] kind = "obj" -> JObj(<< <<"a">> >>, <<JStr(Repeat("x", m))>>)>>)

\* the encodings of the list and of the dict are up to 8 characters longer than m
ContextFields ==
    {ManyFields(n, gap) : n \in (FieldLimit - FieldPad)..(FieldLimit + FieldPad), gap \in {0, 2, 3}}
    \cup {LongField(kind, m) : kind \in {"str", "num", "arr", "obj"},
                               m \in (ValueLimit - LongPad - 8)..(ValueLimit + LongPad)}

Reference(fields) ==
    [id |-> 1, filename |-> "f1.pdf", tipo |-> "SERVICIO", similarity |-> Rat(1, 2),
     fields |-> fields]

\* the reference lists _build_context is run on: one reference of ContextFields
\* among references with the fields of CamposBien
ContextInputs ==
    {[k \in 1..n |-> IF k = at THEN Reference(fields) ELSE Reference(CamposBien)] :
        n \in 1..MaxRefs, at \in 1..MaxRefs, fields \in ContextFields}

\* the field mappings whose ingestion text and query text are compared
KeyObjeto == <<"o", "b", "j", "e", "t", "o", "_", "c", "o", "n", "t", "r", "a", "t", "a", "c", "i", "o", "n">>
KeyAlcance == <<"a", "l", "c", "a", "n", "c", "e">>
KeyEntregables == <<"e", "n", "t", "r", "e", "g", "a", "b", "l", "e", "s">>
KeyFinalidad == <<"f", "i", "n", "a", "l", "i", "d", "a", "d", "_", "p", "u", "b", "l", "i", "c", "a">>
CanonFields ==
    {JObj(<<>>, <<>>),
     JObj(<<KeyObjeto>>, <<JStr(<<"l", "i", "m">>)>>),
     JObj(<<KeyObjeto>>, <<JStr(<<>>)>>),
     JObj(<<KeyAlcance>>, <<JStr(<<"p", "c">>)>>),
     JObj(<<KeyObjeto, KeyAlcance>>, <<JStr(<<"l", "i", "m">>), JStr(<<"p", "c">>)>>),
     JObj(<<KeyAlcance, KeyObjeto>>, <<JStr(<<"p", "c">>), JStr(<<"l", "i", "m">>)>>),
     JObj(<<KeyObjeto, <<"x">>>>, <<JStr(<<"l", "i", "m">>), JStr(<<"y">>)>>),
     JObj(<<KeyEntregables>>, <<JArr(<<JStr(<<"a">>), JStr(<<"b">>)>>)>>),
     JObj(<<KeyEntregables>>,
          <<JArr(<<JObj(<< <<"a">>, <<"b">> >>, <<JStr(<<"x">>), JStr(<<>>)>>),
                   JObj(<< <<"c">> >>, <<JNum(<<"3">>)>>)>>)>>),
     JObj(<<KeyFinalidad>>, <<JObj(<< <<"a">> >>, <<JStr(<<"b">>)>>)>>),
     JObj(<< <<"x">> >>, <<JStr(<<"y">>)>>),
     JObj(<<KeyObjeto, KeyEntregables>>, <<JStr(<<"l", "i", "m">>), JArr(<<JStr(<<"a">>)>>)>>),
     JObj(<<KeyFinalidad, KeyEntregables>>, <<JStr(<<"f">>), JStr(<<"e">>)>>)}

\* campos_parciales is a dict[str, str]
AllStrings(fields) == \A j \in 1..Len(fields.kids) : fields.kids[j].t = "str"

NoCanon ==
    [step |-> "none", tipo |-> NoTipo, fields |-> JNone, how |-> "none",
     document |-> <<>>, query |-> <<>>]

NoOrigin == [kind |-> "none", obj |-> JNone, lead |-> <<>>, trail |-> <<>>]

\* the replies the generator gives in the request flow
GenOutputs ==
    {Dumps(ObjTwo),
     FenceJson \o <<NL>> \o Dumps(ObjNum) \o <<NL>> \o Fence,
     <<"o", "k", ":", " ">> \o Dumps(ObjNested) \o <<".">>,
     <<" ", "x", " ", "a", NL>>,
     <<"{", "a", "}", " ">> \o Dumps(ObjNum),
     <<"[", "1", "]">>}

-----------------------------------------------------------------------------
(* State machine *)

Init ==
    /\ collection = <<>>
    /\ pc = "idle"
    /\ request = NoRequest
    /\ storeResult = <<>>
    /\ referencias = <<>>
    /\ genLog = <<>>
    /\ response = NoResponse
    /\ content = <<>>
    /\ parsed = JNone
    /\ origin = NoOrigin
    /\ pstep = "idle"
    /\ raised = "none"
    /\ config = CollectionConfig
    /\ lastCall = NoCall
    /\ rendered = NotBuilt
    /\ canon = NoCanon
    /\ importRun = NoImport
    /\ embedSvc = NoEmbeddingService
    /\ sqlRows = {}
    /\ addFlow = NoAddFlow
    /\ twin = NoTwin
    /\ tdrText = NoTdrText
    /\ trip = NoTrip
    /\ statsFlow = NoStatsFlow
    /\ idRun = NoIdRun

parserVars == <<content, parsed, origin, pstep>>

\* POST /api/tdr/add up to ChromaDBClient.add_tdr (tdr.py 205-235, chroma.py
\* 54-67).  Ids are numbered in the order they are stored: the id is the next
\* fresh one, or one already stored.  A request reads the index once, in its
\* search, so an add that arrives later in the request acts as one after it
AddTdr ==
    /\ pc = "idle"
    /\ \E id \in 1..MaxDocs, embedding \in Coords, req \in AddTdrRequests :
          LET added == CollectionAdd(collection, <<id>>, <<embedding>>,
                                     <<AddTdrMetadata(req)>>, <<AddTdrDocument(req)>>)
          IN  /\ id <= Len(collection) + 1
              /\ collection' = added.coll
              /\ lastCall' = Call("add_tdr", added.error, <<id>>, <<1, 1, 1, 1>>,
                                  Len(collection), NoStats)
    /\ UNCHANGED <<pc, request, storeResult, referencias, genLog, response, raised,
                   config, parserVars, sideVars>>

\* RAGService.search_similar_tdrs (rag.py 33-48) called by the search endpoints:
\* embed the query, query the store, map the rows
SearchSimilarTdrs ==
    /\ pc = "idle"
    /\ lastCall = NoCall
    /\ \E tipo \in TdrTipo \cup {NoTipo}, limit \in 1..MaxRefs, q \in Coords :
          \E rows \in CollectionQuery(collection, q, limit, tipo) :
              /\ ~SearchRaises(rows)
              /\ storeResult' = rows
              /\ referencias' = SearchResults(rows)
              /\ request' = [tipo |-> tipo, num_referencias |-> limit]
    /\ pc' = "searched"
    /\ lastCall' = NoCall
    /\ UNCHANGED <<collection, genLog, response, raised, config, parserVars, sideVars>>

\* generate_fields up to its generate_content call (rag.py 65-94, 246, 271)
GenerateFieldsCall ==
    /\ pc = "idle"
    /\ lastCall = NoCall
    /\ \E tipo \in TdrTipo, num \in 1..MaxRefs, q \in Coords :
          \E rows \in CollectionQuery(collection, q, num, tipo) :
              /\ ~SearchRaises(rows)
              /\ request' = [tipo |-> tipo, num_referencias |-> num]
              /\ storeResult' = rows
              /\ referencias' = SearchResults(rows)
              /\ genLog' = GeneratorPrompts(tipo, SearchResults(rows))
    /\ pc' = "generating"
    /\ lastCall' = NoCall
    /\ UNCHANGED <<collection, response, raised, config, parserVars, sideVars>>

\* GenerateFieldsSearchRaises going on without references when the search failed
GenerateFieldsSearchRaisesFallback ==
    /\ pc = "idle"
    /\ lastCall = NoCall
    /\ \E tipo \in TdrTipo, num \in 1..MaxRefs, call \in {"embedding", "index"} :
          /\ request' = [tipo |-> tipo, num_referencias |-> num]
          /\ raised' = call
          /\ genLog' = <<ShortPrompt(tipo)>>
    /\ pc' = "generating"
    /\ lastCall' = NoCall
    /\ UNCHANGED <<collection, storeResult, referencias, response, config, parserVars, sideVars>>

\* generate_fields when get_embedding (rag.py 41) or chroma_client.search (rag.py
\* 44-48) raises: nothing in rag.py 50-105 catches, the exception leaves
\* generate_fields at line 78
GenerateFieldsSearchRaises ==
    /\ pc = "idle"
    /\ lastCall = NoCall
    /\ \E tipo \in TdrTipo, num \in 1..MaxRefs, call \in {"embedding", "index"} :
          /\ request' = [tipo |-> tipo, num_referencias |-> num]
          /\ raised' = call
    /\ pc' = "raised"
    /\ lastCall' = NoCall
    /\ UNCHANGED <<collection, storeResult, referencias, genLog, response,
                   config, parserVars, sideVars>>

\* generate_fields when generate_content raises (rag.py 246, 271): the exception
\* leaves _generate_with_gemini or _generate_without_context, then generate_fields
GenerateFieldsGeneratorRaises ==
    /\ pc = "generating"
    /\ raised' = "generator"
    /\ pc' = "raised"
    /\ UNCHANGED <<collection, request, storeResult, referencias, genLog, response,
                   indexVars, parserVars, sideVars>>

\* GenerateFieldsReturn asking the generator again when the reply did not parse
GenerateFieldsReturnRetry ==
    /\ pc = "generating"
    /\ \E raw \in GenOutputs :
          LET campos == ParseJsonResponse(raw)
              resp == BuildResponse(request.tipo, referencias, campos)
          IN  /\ content' = raw
              /\ parsed' = campos
              /\ IF HasKey(campos, <<"e", "r", "r", "o", "r">>) /\ Len(genLog) < 2
                 THEN pc' = "generating" /\ response' = NoResponse
                                         /\ genLog' = Append(genLog, genLog[1])
                 ELSE /\ genLog' = genLog
                      /\ IF ResponseValid(resp)
                         THEN pc' = "done" /\ response' = resp
                         ELSE pc' = "failed" /\ response' = NoResponse
    /\ UNCHANGED <<collection, request, storeResult, referencias, raised, indexVars,
                   origin, pstep, sideVars>>

\* GenerateFieldsReturn that also stores what it generated as a document
GenerateFieldsReturnStoring ==
    /\ pc = "generating"
    /\ Len(collection) < MaxDocs
    /\ \E raw \in GenOutputs :
          LET campos == ParseJsonResponse(raw)
              resp == BuildResponse(request.tipo, referencias, campos)
          IN  /\ content' = raw
              /\ parsed' = campos
              /\ collection' = Append(collection,
                                      [id |-> Len(collection) + 1, embedding |-> 0,
                                       metadata |-> [tipo |-> request.tipo],
                                       document |-> <<>>])
              /\ IF ResponseValid(resp)
                 THEN pc' = "done" /\ response' = resp
                 ELSE pc' = "failed" /\ response' = NoResponse
    /\ UNCHANGED <<request, storeResult, referencias, genLog, raised,
                   indexVars, origin, pstep, sideVars>>

\* generate_fields from the generator's reply to its return (rag.py 256, 280,
\* 96-105, 282-288): parse, build the response; a response that fails
\* validation is raised to the caller
GenerateFieldsReturn ==
    /\ pc = "generating"
    /\ \E raw \in GenOutputs :
          LET campos == ParseJsonResponse(raw)
              resp == BuildResponse(request.tipo, referencias, campos)
          IN  /\ content' = raw
              /\ parsed' = campos
              /\ IF ResponseValid(resp)
                 THEN pc' = "done" /\ response' = resp
                 ELSE pc' = "failed" /\ response' = NoResponse
    /\ UNCHANGED <<collection, request, storeResult, referencias, genLog, raised,
                   indexVars, origin, pstep, sideVars>>

\* the request or the index call is over; the next one starts from scratch
Finish ==
    /\ \/ pc \in {"done", "failed", "searched", "raised"}
       \/ pc = "idle" /\ lastCall # NoCall
    /\ pc' = "idle"
    /\ request' = NoRequest
    /\ storeResult' = <<>>
    /\ referencias' = <<>>
    /\ genLog' = <<>>
    /\ response' = NoResponse
    /\ content' = <<>>
    /\ parsed' = JNone
    /\ raised' = "none"
    /\ lastCall' = NoCall
    /\ UNCHANGED <<collection, config, origin, pstep, sideVars>>

Next ==
    \/ AddTdr
    \/ SearchSimilarTdrs
    \/ GenerateFieldsCall
    \/ GenerateFieldsSearchRaises
    \/ GenerateFieldsGeneratorRaises
    \/ GenerateFieldsReturn
    \/ Finish

Spec == Init /\ [][Next]_vars

-----------------------------------------------------------------------------
(* The operations on the index: ChromaDBClient and the endpoints over it   *)

\* ChromaDBClient.add_tdrs_batch (chroma.py 69-82) with the records of the ids
\* start, start + 1, ...; the lists go to _collection.add as they are
AddTdrsBatch ==
    /\ pc = "idle"
    /\ \E n \in 1..MaxBatch, start \in 1..MaxDocs, shape \in BatchShapes :
          LET run == [k \in 1..n |-> start + k - 1]
              full == IF shape = "duplicate" THEN Append(run, start) ELSE run
              cut(list, name) == IF shape = name THEN DropLast(list, 1) ELSE list
              ids == cut(full, "ids")
              embeddings == cut([k \in 1..Len(full) |-> SourceEmbedding(full[k])], "embeddings")
              metadatas == cut([k \in 1..Len(full) |-> SourceMetadata(full[k])], "metadatas")
              documents == cut([k \in 1..Len(full) |-> SourceDocument(full[k])], "documents")
              added == CollectionAdd(collection, ids, embeddings, metadatas, documents)
          IN  /\ start <= Len(collection) + 1
              /\ start + n - 1 <= MaxDocs
              /\ collection' = added.coll
              /\ lastCall' = Call("add_tdrs_batch", added.error, ids,
                                  <<Len(ids), Len(embeddings), Len(metadatas), Len(documents)>>,
                                  Len(collection), NoStats)
    /\ UNCHANGED <<pc, request, storeResult, referencias, genLog, response, raised,
                   config, parserVars, sideVars>>

\* GET /api/tdr/{tdr_id} (tdr.py 162-189): 404 when the id is not stored
GetTdr ==
    /\ pc = "idle"
    /\ \E id \in 1..MaxDocs :
          lastCall' = Call("get", IF id \in StoredIds(collection) THEN "none" ELSE "404",
                           <<id>>, NoLens, Len(collection), NoStats)
    /\ UNCHANGED <<ragVars, config, parserVars, sideVars>>

\* ChromaDBClient.get_stats (chroma.py 129-154), no other call in between its
\* count and its enumeration
GetStats ==
    /\ pc = "idle"
    /\ lastCall' = Call("get_stats", "none", <<>>, NoLens, Len(collection),
                        GetStatsResult(collection))
    /\ UNCHANGED <<ragVars, config, parserVars, sideVars>>

\* Clear emptying all but the newest document
ClearKeepsNewest ==
    /\ pc = "idle"
    /\ collection' = IF collection = <<>> THEN <<>> ELSE <<collection[Len(collection)]>>
    /\ config' = CollectionConfig
    /\ lastCall' = Call("clear", "none", <<>>, NoLens, Len(collection), NoStats)
    /\ UNCHANGED <<pc, request, storeResult, referencias, genLog, response, raised,
                   parserVars, sideVars>>

\* ChromaDBClient.clear (chroma.py 156-162): the collection is deleted and one
\* of the same name and metadata created, which the client holds from then on
Clear ==
    /\ pc = "idle"
    /\ collection' = <<>>
    /\ config' = CollectionConfig
    /\ lastCall' = Call("clear", "none", <<>>, NoLens, Len(collection), NoStats)
    /\ UNCHANGED <<pc, request, storeResult, referencias, genLog, response, raised,
                   parserVars, sideVars>>

IndexNext ==
    \/ AddTdr
    \/ AddTdrsBatch
    \/ SearchSimilarTdrs
    \/ Finish
    \/ GetTdr
    \/ GetStats
    \/ Clear

IndexSpec == Init /\ [][IndexNext]_vars

-----------------------------------------------------------------------------
(* _build_context on its own, over the bounded reference lists *)

ReceiveReferences ==
    /\ pc = "idle"
    /\ ~rendered.built
    /\ referencias = <<>>
    /\ \E refs \in ContextInputs : referencias' = refs
    /\ UNCHANGED <<collection, pc, request, storeResult, genLog, response, raised,
                   indexVars, parserVars, sideVars>>

\* rag.py 107-127
RenderContext ==
    /\ pc = "idle"
    /\ ~rendered.built
    /\ referencias # <<>>
    /\ rendered' = [built |-> TRUE, blocks |-> BuildContext(referencias)]
    /\ UNCHANGED <<ragVars, indexVars, parserVars, canon, importRun, lateVars>>

ContextNext ==
    \/ ReceiveReferences
    \/ RenderContext

ContextSpec == Init /\ [][ContextNext]_vars

-----------------------------------------------------------------------------
(* The text that is embedded, at ingestion and at query time *)

\* add_tdr (tdr.py 209-216): the text of a new document
IngestText ==
    /\ canon.step = "none"
    /\ \E tipo \in TdrTipo, fields \in CanonFields :
          canon' = [step |-> "ingested", tipo |-> tipo, fields |-> fields, how |-> "none",
                    document |-> CreateTdrText(fields, tipo), query |-> <<>>]
    /\ UNCHANGED <<ragVars, indexVars, parserVars, rendered, importRun, lateVars>>

\* generate_fields (rag.py 65-78, 40-41) asked with the tipo and the fields of
\* the document: the fields as campos_parciales, the document's
\* objeto_contratacion as objeto_contratacion, or both
QueryTextOfFields ==
    /\ canon.step = "ingested"
    /\ \E how \in {"campos_parciales", "objeto_contratacion", "both"} :
          /\ how \in {"campos_parciales", "both"} => AllStrings(canon.fields)
          /\ how \in {"objeto_contratacion", "both"} => HasKey(canon.fields, KeyObjeto)
          /\ canon' = [canon EXCEPT
                !.step = "queried",
                !.how = how,
                !.query = EmbeddedQuery(
                    QueryText(canon.tipo, JNull,
                              IF how = "campos_parciales" THEN JNull
                              ELSE Lookup(canon.fields, KeyObjeto),
                              IF how = "objeto_contratacion" THEN JNull
                              ELSE canon.fields))]
    /\ UNCHANGED <<ragVars, indexVars, parserVars, rendered, importRun, lateVars>>

CanonNext ==
    \/ IngestText
    \/ QueryTextOfFields

CanonSpec == Init /\ [][CanonNext]_vars

-----------------------------------------------------------------------------
(* The import script, run and run again *)

\* the fields of the imported documents
ImportFields == JObj(<< <<"a">> >>, <<JStr(<<"x">>)>>)

\* the numbers of documents of a run: chunks that are full, one over, one short
ImportSizes ==
    {(c - 1) * BatchSize + r : c \in 1..MaxChunks, r \in {1, 2, BatchSize - 1, BatchSize}}

\* import_all_tdrs lines 70-108 (main of load_tdrs.py 132-174): a run of the
\* script starts, the first on documents the environment chooses, a later one
\* on the same documents
StartImport ==
    /\ importRun.status \in {"none", "failed"}
    /\ IF importRun.status = "none"
       THEN \E n \in ImportSizes, same \in {0, 1, BatchSize, BatchSize + 1} :
               /\ same < n
               /\ importRun' = [status |-> "running", n |-> n, same |-> same,
                                ids |-> ImportIds(n, same),
                                embeddings |-> <<>>,
                                metadatas |-> [k \in 1..n |-> ImportMetadata(ImportFields)],
                                documents |-> [k \in 1..n |->
                                                  CreateTdrText(ImportFields, "SERVICIO")],
                                next |-> 0, failures |-> 0, startedWith |-> Len(collection)]
       ELSE importRun' = [importRun EXCEPT !.status = "running", !.embeddings = <<>>,
                                           !.next = 0, !.startedWith = Len(collection)]
    /\ UNCHANGED <<ragVars, indexVars, parserVars, rendered, canon, lateVars>>

\* lines 110-118 (load_tdrs.py 179): the embeddings of all documents
GenerateEmbeddings ==
    /\ importRun.status = "running"
    /\ importRun.next = 0
    /\ importRun' = [importRun EXCEPT !.embeddings = [k \in 1..importRun.n |->
                                                        k % (MaxCoord + 1)],
                                      !.next = 1]
    /\ UNCHANGED <<ragVars, indexVars, parserVars, rendered, canon, lateVars>>

\* lines 123-132 (load_tdrs.py 186-197): the next chunk goes to add_tdrs_batch;
\* an exception of the store ends the run
InsertChunk ==
    /\ importRun.status = "running"
    /\ importRun.next \in 1..Chunks(importRun.n)
    /\ LET added == CollectionAdd(collection,
                                  ChunkOf(importRun.ids, importRun.next),
                                  ChunkOf(importRun.embeddings, importRun.next),
                                  ChunkOf(importRun.metadatas, importRun.next),
                                  ChunkOf(importRun.documents, importRun.next))
           len == Len(ChunkOf(importRun.ids, importRun.next))
       IN  /\ collection' = added.coll
           /\ lastCall' = Call("add_tdrs_batch", added.error, <<>>, <<len, len, len, len>>,
                               Len(collection), NoStats)
           /\ importRun' = IF added.error = "none"
                           THEN [importRun EXCEPT !.next = @ + 1]
                           ELSE [importRun EXCEPT !.status = "failed"]
    /\ UNCHANGED <<pc, request, storeResult, referencias, genLog, response, raised,
                   config, parserVars, rendered, canon, lateVars>>

\* the embedding model or the store fails for a reason of its own (memory,
\* disk, a killed process): the run ends where it is
ImportRaises ==
    /\ importRun.status = "running"
    /\ importRun.next <= Chunks(importRun.n)
    /\ importRun.failures < MaxFailures
    /\ importRun' = [importRun EXCEPT !.status = "failed", !.failures = @ + 1]
    /\ UNCHANGED <<ragVars, indexVars, parserVars, rendered, canon, lateVars>>

\* lines 134-138 (load_tdrs.py 200-221): every chunk went in; the script
\* reports the statistics and ends
ImportDone ==
    /\ importRun.status = "running"
    /\ importRun.next = Chunks(importRun.n) + 1
    /\ importRun' = [importRun EXCEPT !.status = "done"]
    /\ lastCall' = Call("get_stats", "none", <<>>, NoLens, Len(collection),
                        GetStatsResult(collection))
    /\ UNCHANGED <<ragVars, config, parserVars, rendered, canon, lateVars>>

ImportNext ==
    \/ StartImport
    \/ GenerateEmbeddings
    \/ InsertChunk
    \/ ImportRaises
    \/ ImportDone

\* a failed run is run again, and a run that nothing stops goes on
ImportFairness ==
    /\ WF_vars(StartImport)
    /\ WF_vars(GenerateEmbeddings)
    /\ WF_vars(InsertChunk)
    /\ WF_vars(ImportDone)

ImportSpec == Init /\ [][ImportNext]_vars /\ ImportFairness

-----------------------------------------------------------------------------
(* The embedding service: the import of the module, constructions, calls    *)

\* the texts to embed: the empty string and another
EmbeddingTexts == {<<>>, <<"a">>}

\* embeddings.py 83, run once by the import of the module under the import
\* lock: the first construction.  When the model cannot be loaded the import
\* fails and with it the process
ImportEmbeddings ==
    /\ embedSvc.imported = "no"
    /\ \E loaded \in BOOLEAN :
          embedSvc' = IF loaded
                      THEN [EmbeddingInit(EmbeddingNew(embedSvc)) EXCEPT
                               !.imported = "yes",
                               !.returned = {EmbeddingNew(embedSvc).instance}]
                      ELSE [EmbeddingNew(embedSvc) EXCEPT !.imported = "fatal"]
    /\ UNCHANGED <<ragVars, indexVars, parserVars, rendered, canon, importRun, sqlRows,
                   addFlow, twin, tdrText, trip, statsFlow, idRun>>

\* EmbeddingService() in a thread, first half: __new__ (lines 16-19)
ConstructNew(t) ==
    /\ embedSvc.imported = "yes"
    /\ embedSvc.tpc[t] = "idle"
    /\ embedSvc' = [EmbeddingNew(embedSvc) EXCEPT
                       !.tpc[t] = "new", !.self[t] = EmbeddingNew(embedSvc).instance]
    /\ UNCHANGED <<ragVars, indexVars, parserVars, rendered, canon, importRun, sqlRows,
                   addFlow, twin, tdrText, trip, statsFlow, idRun>>

\* second half: __init__ on the instance __new__ returned (lines 21-26)
ConstructInit(t) ==
    /\ embedSvc.tpc[t] = "new"
    /\ embedSvc' = [EmbeddingInit(embedSvc) EXCEPT
                       !.tpc[t] = "idle", !.returned = @ \cup {embedSvc.self[t]}]
    /\ UNCHANGED <<ragVars, indexVars, parserVars, rendered, canon, importRun, sqlRows,
                   addFlow, twin, tdrText, trip, statsFlow, idRun>>

\* get_embedding(text) (lines 28-31) in any thread
GetEmbedding ==
    /\ embedSvc.imported = "yes"
    /\ \E text \in EmbeddingTexts, encoderFails \in BOOLEAN :
          embedSvc' = [embedSvc EXCEPT
                          !.out = Encode(embedSvc, "get_embedding", <<text>>, encoderFails)]
    /\ UNCHANGED <<ragVars, indexVars, parserVars, rendered, canon, importRun, sqlRows,
                   addFlow, twin, tdrText, trip, statsFlow, idRun>>

\* get_embeddings_batch(texts) (lines 33-36) in any thread
GetEmbeddingsBatch ==
    /\ embedSvc.imported = "yes"
    /\ \E n \in 0..MaxTexts, encoderFails \in BOOLEAN :
       \E texts \in [1..n -> EmbeddingTexts] :
          embedSvc' = [embedSvc EXCEPT
                          !.out = Encode(embedSvc, "get_embeddings_batch", texts, encoderFails)]
    /\ UNCHANGED <<ragVars, indexVars, parserVars, rendered, canon, importRun, sqlRows,
                   addFlow, twin, tdrText, trip, statsFlow, idRun>>

EmbeddingNext ==
    \/ ImportEmbeddings
    \/ \E t \in Threads : ConstructNew(t)
    \/ \E t \in Threads : ConstructInit(t)
    \/ GetEmbedding
    \/ GetEmbeddingsBatch

EmbeddingSpec == Init /\ [][EmbeddingNext]_vars

-----------------------------------------------------------------------------
(* POST /api/tdr/add step by step: the two stores *)

\* tdr.py 205-216: the id (uuid4().hex[:8]: fresh, or one given out before),
\* the text and its embedding; get_embedding may raise
AddTdrPrepare ==
    /\ addFlow.step = "idle"
    /\ pc = "idle"
    /\ \E id \in 1..MaxDocs, embedding \in Coords, req \in AddTdrRequests, fails \in BOOLEAN :
          /\ id <= Len(collection) + 1
          /\ addFlow' = [step |-> IF fails THEN "failed" ELSE "prepared",
                         id |-> id, embedding |-> embedding, req |-> req,
                         raisedAt |-> IF fails THEN "embedding" ELSE "none"]
    /\ UNCHANGED <<ragVars, indexVars, parserVars, rendered, canon, importRun,
                   embedSvc, sqlRows, twin, tdrText, trip, statsFlow, idRun>>

\* tdr.py 218-235: chroma_client.add_tdr; the store may raise and store nothing
AddTdrIndex ==
    /\ addFlow.step = "prepared"
    /\ pc = "idle"
    /\ \E fails \in BOOLEAN :
          LET added == CollectionAdd(collection, <<addFlow.id>>, <<addFlow.embedding>>,
                                     <<AddTdrMetadata(addFlow.req)>>,
                                     <<AddTdrDocument(addFlow.req)>>)
          IN  IF fails \/ added.error # "none"
              THEN /\ addFlow' = [addFlow EXCEPT !.step = "failed", !.raisedAt = "index"]
                   /\ UNCHANGED collection
              ELSE /\ addFlow' = [addFlow EXCEPT !.step = "indexed"]
                   /\ collection' = added.coll
    /\ UNCHANGED <<pc, request, storeResult, referencias, genLog, response, raised,
                   indexVars, parserVars, rendered, canon, importRun, embedSvc,
                   sqlRows, twin, tdrText, trip, statsFlow, idRun>>

\* tdr.py 237-246 and 259-260: db.add and db.commit; when the commit raises
\* (the database fails, or a row with this id exists) the except branch rolls
\* the session back
AddTdrCommit(fails) ==
    /\ addFlow.step = "indexed"
    /\ pc = "idle"
    /\ IF fails \/ addFlow.id \in sqlRows
       THEN /\ addFlow' = [addFlow EXCEPT !.step = "failed", !.raisedAt = "commit"]
            /\ UNCHANGED <<collection, sqlRows>>
       ELSE /\ addFlow' = [addFlow EXCEPT !.step = "committed"]
            /\ sqlRows' = sqlRows \cup {addFlow.id}
            /\ UNCHANGED collection
    /\ UNCHANGED <<pc, request, storeResult, referencias, genLog, response, raised,
                   indexVars, parserVars, rendered, canon, importRun, embedSvc, twin,
                   tdrText, trip, statsFlow, idRun>>

\* tdr.py 247-264: db.refresh and get_stats, then the answer; when one of them
\* raises the rollback finds nothing to undo and the answer is HTTP 500
AddTdrReturn ==
    /\ addFlow.step = "committed"
    /\ pc = "idle"
    /\ \E fails \in BOOLEAN :
          addFlow' = IF fails
                     THEN [addFlow EXCEPT !.step = "failed", !.raisedAt = "stats"]
                     ELSE [addFlow EXCEPT !.step = "returned"]
    /\ UNCHANGED <<ragVars, indexVars, parserVars, rendered, canon, importRun,
                   embedSvc, sqlRows, twin, tdrText, trip, statsFlow, idRun>>

\* the request is over
AddTdrFinish ==
    /\ addFlow.step \in {"returned", "failed"}
    /\ addFlow' = NoAddFlow
    /\ UNCHANGED <<ragVars, indexVars, parserVars, rendered, canon, importRun,
                   embedSvc, sqlRows, twin, tdrText, trip, statsFlow, idRun>>

AddTdrNext ==
    \/ AddTdrPrepare
    \/ AddTdrIndex
    \/ \E fails \in BOOLEAN : AddTdrCommit(fails)
    \/ AddTdrReturn
    \/ AddTdrFinish

AddTdrSpec == Init /\ [][AddTdrNext]_vars

-----------------------------------------------------------------------------
(* Requests beside the writes of add_tdr, and a request made a second time  *)

\* the request that ended is kept (once) and the next one starts
Remember ==
    /\ pc \in {"done", "failed", "searched"}
    /\ ~twin.set
    /\ twin' = [set |-> TRUE, pc |-> pc, request |-> request, storeResult |-> storeResult,
                content |-> content, referencias |-> referencias, response |-> response]
    /\ pc' = "idle"
    /\ request' = NoRequest
    /\ storeResult' = <<>>
    /\ referencias' = <<>>
    /\ genLog' = <<>>
    /\ response' = NoResponse
    /\ content' = <<>>
    /\ parsed' = JNone
    /\ raised' = "none"
    /\ lastCall' = NoCall
    /\ UNCHANGED <<collection, config, origin, pstep, rendered, canon, importRun,
                   embedSvc, sqlRows, addFlow, tdrText, trip, statsFlow, idRun>>

\* once a request is kept the index stays as that request found it; what a
\* document holds goes by its id here
FrameAddTdrPrepare ==
    /\ ~twin.set
    /\ AddTdrPrepare
    /\ addFlow'.embedding = SourceEmbedding(addFlow'.id)
    /\ addFlow'.req.tipo = (IF addFlow'.id % 2 = 1 THEN "SERVICIO" ELSE "BIEN")

\* the requests start between the add_tdr requests; after one is kept, the
\* same request is made again and the store answers it as before
FrameSearch ==
    /\ addFlow.step = "idle"
    /\ SearchSimilarTdrs
    /\ twin.set => /\ twin.pc = "searched"
                   /\ request' = twin.request
                   /\ storeResult' = twin.storeResult

FrameCall ==
    /\ addFlow.step = "idle"
    /\ GenerateFieldsCall
    /\ twin.set => /\ twin.pc # "searched"
                   /\ request' = twin.request
                   /\ storeResult' = twin.storeResult

FrameSearchRaises ==
    /\ addFlow.step = "idle"
    /\ ~twin.set
    /\ GenerateFieldsSearchRaises

\* the generator gives the kept request's output again
FrameReturn ==
    /\ GenerateFieldsReturn
    /\ twin.set => content' = twin.content

FrameNext ==
    \/ FrameAddTdrPrepare
    \/ AddTdrIndex
    \/ \E fails \in BOOLEAN : AddTdrCommit(fails)
    \/ AddTdrReturn
    \/ AddTdrFinish
    \/ FrameSearch
    \/ FrameCall
    \/ FrameSearchRaises
    \/ GenerateFieldsGeneratorRaises
    \/ FrameReturn
    \/ Remember
    \/ Finish

FrameSpec == Init /\ [][FrameNext]_vars

-----------------------------------------------------------------------------
(* create_tdr_text on its own, over values of every shape *)

TextObj(key, chars) == JObj(<<key>>, <<JStr(chars)>>)

\* the values of a field: scalars, lists short and long, of texts, of dicts
\* and of both, dicts short and long, and the empty ones
TextValues ==
    {JStr(<<"x">>), JStr(<<>>), JNum(<<"7">>), JNum(<<"0">>), JNull,
     JArr(<<>>), JObj(<<>>, <<>>),
     JArr(<<JStr(<<"a">>), JStr(<<"b">>)>>),
     JArr(<<JNum(<<"1">>), JNull, JStr(<<"a">>)>>),
     JArr([j \in 1..6 |-> JStr(NatText(j))]),
     JArr(<<TextObj(<<"a">>, <<"x">>)>>),
     JArr(<<JObj(<< <<"a">>, <<"b">> >>, <<JStr(<<"x">>), JStr(<<>>)>>),
            JObj(<< <<"c">> >>, <<JNum(<<"3">>)>>)>>),
     JArr([j \in 1..4 |-> TextObj(<<"a">>, NatText(j))]),
     JArr(<<TextObj(<<"a">>, <<"x">>), TextObj(<<"a">>, <<"y">>),
            TextObj(<<"a">>, <<"z">>), JStr(<<"w">>)>>),
     JArr(<<TextObj(<<"a">>, <<"x">>), JStr(<<"y">>)>>),
     JObj(<< <<"a">> >>, <<JStr(<<"b">>)>>),
     JObj(<< <<"a">>, <<"n">> >>, <<JStr(<<>>), JNum(<<"2">>)>>),
     JObj([j \in 1..6 |-> <<"k">> \o NatText(j)], [j \in 1..6 |-> JStr(NatText(j))])}

\* the field mappings: a priority field alone, one behind a later priority
\* field, one between fields that are not priority fields
TextFields ==
    {JObj(<<KeyEntregables>>, <<v>>) : v \in TextValues}
    \cup {JObj(<<KeyEntregables, KeyObjeto>>, <<v, JStr(<<"l", "i", "m">>)>>) : v \in TextValues}
    \cup {JObj(<< <<"x">>, KeyAlcance, <<"y">> >>, <<JStr(<<"p">>), v, JStr(<<"q">>)>>) :
             v \in TextValues}

\* embedding_service.create_tdr_text(fields, tipo)
CreateTdrTextCalled ==
    /\ \E fields \in TextFields, tipo \in TdrTipo :
          tdrText' = CreateTdrTextCall(fields, tipo)
    /\ UNCHANGED <<ragVars, indexVars, parserVars, rendered, canon, importRun,
                   embedSvc, sqlRows, addFlow, twin, trip, statsFlow, idRun>>

TextNext == CreateTdrTextCalled

TextSpec == Init /\ [][TextNext]_vars

-----------------------------------------------------------------------------
(* The three ingestion paths, one document at a time: add_tdr of tdr.py,   *)
(* process_tdr of import_tdrs.py, detect_tipo and process_tdr of           *)
(* load_tdrs.py; then what search and GET /api/tdr/{id} give back          *)

\* load_tdrs.py line 98: the characters kept of the encoded fields
LoadFieldsJsonCap == 10000

\* CATEGORY_TO_TIPO: import_tdrs.py lines 21-27, load_tdrs.py lines 25-31
CATEGORY_TO_TIPO ==
    [c \in {"Bien", "Servicio", "Obra", "Consultoria de obra", "Archivos de distintos tipos"} |->
        CASE c = "Bien" -> "BIEN"
          [] c = "Servicio" -> "SERVICIO"
          [] c = "Obra" -> "OBRA"
          [] c = "Consultoria de obra" -> "CONSULTORIA_OBRA"
          [] c = "Archivos de distintos tipos" -> "SERVICIO"]

\* the folders of a corpus: the five of CATEGORY_TO_TIPO and one more
Categories == DOMAIN CATEGORY_TO_TIPO \cup {"Otros"}

UpperCase == <<"A", "B", "C", "D", "E", "F", "G", "H", "I", "J", "K", "L", "M", "N", "O",
               "P", "Q", "R", "S", "T", "U", "V", "W", "X", "Y", "Z", "Í", "Ó">>
LowerCase == <<"a", "b", "c", "d", "e", "f", "g", "h", "i", "j", "k", "l", "m", "n", "o",
               "p", "q", "r", "s", "t", "u", "v", "w", "x", "y", "z", "í", "ó">>

\* str.lower()
Lower(s) ==
    [i \in 1..Len(s) |->
        IF \E k \in 1..Len(UpperCase) : UpperCase[k] = s[i]
        THEN LowerCase[CHOOSE k \in 1..Len(UpperCase) : UpperCase[k] = s[i]]
        ELSE s[i]]

\* sub in s
Contains(s, sub) ==
    \E i \in 1..(Len(s) - Len(sub) + 1) : SubSeq(s, i, i + Len(sub) - 1) = sub

\* detect_tipo without its last branch: a category it cannot place stays as the tipo
DetectTipoNoDefault(fields, category) ==
    IF category \in DOMAIN CATEGORY_TO_TIPO THEN CATEGORY_TO_TIPO[category]
    ELSE IF Contains(Lower(Dumps(fields)), <<"o", "b", "r", "a">>) THEN "OBRA" ELSE category

\* load_tdrs.py lines 45-61
detect_tipo(fields, category) ==
    IF category \in DOMAIN CATEGORY_TO_TIPO THEN CATEGORY_TO_TIPO[category]
    ELSE LET text == Lower(Dumps(fields))
         IN  IF \/ Contains(text, <<"b", "i", "e", "n">>)
                \/ Contains(text, <<"a", "d", "q", "u", "i", "s", "i", "c", "i", "ó", "n">>)
                \/ Contains(text, <<"s", "u", "m", "i", "n", "i", "s", "t", "r", "o">>)
             THEN "BIEN"
             ELSE IF /\ Contains(text, <<"o", "b", "r", "a">>)
                     /\ Contains(text, <<"c", "o", "n", "s", "u", "l", "t", "o", "r", "í", "a">>)
             THEN "CONSULTORIA_OBRA"
             ELSE IF \/ Contains(text, <<"o", "b", "r", "a">>)
                     \/ Contains(text, <<"c", "o", "n", "s", "t", "r", "u", "c", "c", "i", "ó", "n">>)
             THEN "OBRA"
             ELSE "SERVICIO"

\* load_tdrs.py lines 93-99: the metadata of process_tdr
LoadMetadata(fields, category) ==
    [filename |-> "f1.json",
     category |-> category,
     tipo |-> detect_tipo(fields, category),
     fields_json |-> Prefix(Dumps(fields), LoadFieldsJsonCap)]

\* import_tdrs.py lines 50, 56-62: the metadata of process_tdr
ImportProcessMetadata(fields, category) ==
    [filename |-> "f1.pdf",
     tipo |-> MetaGet(CATEGORY_TO_TIPO, category, "SERVICIO"),
     category |-> category,
     page_count |-> 1,
     fields_json |-> Prefix(Dumps(fields), ImportFieldsJsonCap)]

\* tdr.py lines 175-180: the fields of GET /api/tdr/{tdr_id}
GetTdrFields(metadata) ==
    IF "fields_json" \in DOMAIN metadata
    THEN LET r == JsonLoads(metadata["fields_json"])
         IN  IF r.ok THEN r.v ELSE JObj(<<>>, <<>>)
    ELSE JObj(<<>>, <<>>)

\* the document stored by an ingestion path
Stored(path, fields, metadata) ==
    [step |-> "stored", path |-> path, fields |-> fields, metadata |-> metadata,
     searched |-> "no", searchFields |-> JNone, got |-> FALSE, getFields |-> JNone]

\* a mapping whose encoding has n characters: a long text and a number
LongFields(n) ==
    JObj(<< <<"a">>, <<"b">> >>, <<JStr(Repeat("x", n - 17)), JNum(<<"1">>)>>)

\* a mapping whose encoding has n characters: a long text alone
LongText(n) == JObj(<< <<"a">> >>, <<JStr(Repeat("x", n - 9))>>)

\* the mappings whose encoding is about as long as cap: the cut falls on
\* every character of the last member and on the closing brace
LongMappings(cap) ==
    {LongFields(n) : n \in (cap - LongPad)..(cap + 9 + LongPad)}
    \cup {LongText(n) : n \in (cap - LongPad)..(cap + LongPad)}

\* short mappings: the words detect_tipo looks for, in either case, in a
\* value and in a key, alone and together, and none of them
SmallMappings ==
    {CamposBien, CamposServicio,
     JObj(<<KeyObjeto>>, <<JStr(<<"B", "I", "E", "N">>)>>),
     JObj(<<KeyObjeto>>, <<JStr(<<"a", "m", "b", "i", "e", "n", "t", "e">>)>>),
     JObj(<<KeyObjeto>>, <<JStr(<<"O", "b", "r", "a">>)>>),
     JObj(<< <<"o", "b", "r", "a">> >>, <<JNum(<<"1">>)>>),
     JObj(<<KeyObjeto, KeyAlcance>>,
          <<JStr(<<"o", "b", "r", "a">>),
            JStr(<<"C", "o", "n", "s", "u", "l", "t", "o", "r", "í", "a">>)>>),
     JObj(<<KeyObjeto>>, <<JStr(<<"c", "o", "n", "s", "t", "r", "u", "c", "c", "i", "ó", "n">>)>>),
     JObj(<<KeyEntregables>>,
          <<JArr(<<JObj(<< <<"n">> >>, <<JNum(<<"1">>)>>), JObj(<< <<"n">> >>, <<JNull>>)>>)>>),
     JObj(<<>>, <<>>)}

\* add_tdr (tdr.py 192-257): the request is validated (tipo: TdrTipo, campos:
\* dict), the text is built, the document goes to the index
TripAddTdr ==
    /\ trip.step = "none"
    /\ \E tipo \in TdrTipo, campos \in SmallMappings \cup LongMappings(FieldsJsonCap) :
          /\ campos \in LongMappings(FieldsJsonCap) => tipo = "BIEN"
          /\ ~CreateTdrTextRaises(campos)
          /\ trip' = Stored("add_tdr", campos,
                            AddTdrMetadata([tipo |-> tipo, titulo |-> "t1", campos |-> campos]))
    /\ UNCHANGED <<ragVars, indexVars, parserVars, rendered, canon, importRun,
                   embedSvc, sqlRows, addFlow, twin, tdrText, statsFlow, idRun>>

\* import_tdrs.py: process_tdr (43-67) of a file of the folder category, kept
\* when its fields are not empty, then the batch add
TripImport ==
    /\ trip.step = "none"
    /\ \E category \in Categories, fields \in SmallMappings \cup LongMappings(ImportFieldsJsonCap) :
          /\ fields \in LongMappings(ImportFieldsJsonCap) => category = "Servicio"
          /\ Truthy(fields)
          /\ ~CreateTdrTextRaises(fields)
          /\ trip' = Stored("import_tdrs", fields, ImportProcessMetadata(fields, category))
    /\ UNCHANGED <<ragVars, indexVars, parserVars, rendered, canon, importRun,
                   embedSvc, sqlRows, addFlow, twin, tdrText, statsFlow, idRun>>

\* load_tdrs.py: process_tdr (70-101) of a file of the folder category, then
\* the batch add; a file whose text cannot be built is counted as an error
TripLoad ==
    /\ trip.step = "none"
    /\ \E category \in Categories, fields \in SmallMappings \cup LongMappings(LoadFieldsJsonCap) :
          /\ fields \in LongMappings(LoadFieldsJsonCap) => category = "Servicio"
          /\ ~CreateTdrTextRaises(fields)
          /\ trip' = Stored("load_tdrs", fields, LoadMetadata(fields, category))
    /\ UNCHANGED <<ragVars, indexVars, parserVars, rendered, canon, importRun,
                   embedSvc, sqlRows, addFlow, twin, tdrText, statsFlow, idRun>>

\* ChromaDBClient.search (chroma.py 102-127) finding the document
TripSearch ==
    /\ trip.step = "stored"
    /\ trip.searched = "no"
    /\ LET rows == <<[id |-> 1, metadata |-> trip.metadata, distance |-> 0]>>
       IN  trip' = IF SearchRaises(rows)
                   THEN [trip EXCEPT !.searched = "raised"]
                   ELSE [trip EXCEPT !.searched = "yes",
                                     !.searchFields = SearchResults(rows)[1].fields]
    /\ UNCHANGED <<ragVars, indexVars, parserVars, rendered, canon, importRun,
                   embedSvc, sqlRows, addFlow, twin, tdrText, statsFlow, idRun>>

\* GET /api/tdr/{tdr_id} (tdr.py 162-189) of the document
TripGetTdr ==
    /\ trip.step = "stored"
    /\ ~trip.got
    /\ trip' = [trip EXCEPT !.got = TRUE, !.getFields = GetTdrFields(trip.metadata)]
    /\ UNCHANGED <<ragVars, indexVars, parserVars, rendered, canon, importRun,
                   embedSvc, sqlRows, addFlow, twin, tdrText, statsFlow, idRun>>

PathNext == TripAddTdr \/ TripImport \/ TripLoad \/ TripSearch \/ TripGetTdr

PathSpec == Init /\ [][PathNext]_vars

-----------------------------------------------------------------------------
(* ChromaDBClient.get_stats step by step.  The endpoints are coroutines     *)
(* that never await inside a call, so two requests of one server process   *)
(* do not interleave; load_tdrs.py, import_tdrs.py and a second server      *)
(* process work on the same persisted index with a client of their own,    *)
(* and their calls fall anywhere between the two reads of get_stats.        *)

\* line 131: count = self._collection.count()
GetStatsCount ==
    /\ statsFlow.step = "idle"
    /\ statsFlow' = [NoStatsFlow EXCEPT !.step = "counted", !.count = Len(collection)]
    /\ UNCHANGED <<ragVars, indexVars, parserVars, rendered, canon, importRun,
                   embedSvc, sqlRows, addFlow, twin, tdrText, trip, idRun>>

\* lines 134-154: the metadatas are read when count > 0, and counted by tipo
\* and by category.  After a clear() of another process the collection this
\* client holds is gone: the read raises, or is answered from the collection
\* of that name
GetStatsEnumerate ==
    /\ statsFlow.step = "counted"
    /\ \E raises \in BOOLEAN :
          /\ raises => statsFlow.stale /\ statsFlow.count > 0
          /\ statsFlow' =
                IF raises THEN [statsFlow EXCEPT !.step = "raised"]
                ELSE [statsFlow EXCEPT !.step = "returned",
                                       !.result = GetStatsReturn(statsFlow.count, collection)]
    /\ UNCHANGED <<ragVars, indexVars, parserVars, rendered, canon, importRun,
                   embedSvc, sqlRows, addFlow, twin, tdrText, trip, idRun>>

\* the caller has the result, or the exception
GetStatsFinish ==
    /\ statsFlow.step \in {"returned", "raised"}
    /\ statsFlow' = NoStatsFlow
    /\ UNCHANGED <<ragVars, indexVars, parserVars, rendered, canon, importRun,
                   embedSvc, sqlRows, addFlow, twin, tdrText, trip, idRun>>

\* ChromaDBClient.clear (chroma.py 156-162) by another process
StatsClear ==
    /\ pc = "idle"
    /\ collection' = <<>>
    /\ config' = CollectionConfig
    /\ lastCall' = Call("clear", "none", <<>>, NoLens, Len(collection), NoStats)
    /\ statsFlow' = [statsFlow EXCEPT !.stale = (statsFlow.step = "counted" \/ statsFlow.stale)]
    /\ UNCHANGED <<pc, request, storeResult, referencias, genLog, response, raised,
                   parserVars, rendered, canon, importRun, embedSvc, sqlRows, addFlow,
                   twin, tdrText, trip, idRun>>

\* add_tdr and add_tdrs_batch of another process, those that store something
StatsAddTdr == AddTdr /\ collection' # collection

StatsAddTdrsBatch == AddTdrsBatch /\ collection' # collection

StatsNext ==
    \/ GetStatsCount
    \/ GetStatsEnumerate
    \/ GetStatsFinish
    \/ StatsAddTdr
    \/ StatsAddTdrsBatch
    \/ StatsClear

StatsSpec == Init /\ [][StatsNext]_vars

-----------------------------------------------------------------------------
(* The ids of an import run.  batch_gemini.py writes the fields of the file  *)
(* <folder>/<stem>.pdf to <folder>/<stem>.json with filename <stem>.pdf and  *)
(* category <folder>; a source document is a folder and a stem               *)

\* str.replace(a, b) for single characters
ReplaceChar(s, a, b) == [i \in 1..Len(s) |-> IF s[i] = a THEN b ELSE s[i]]

\* str.replace(sub, ''): the occurrences of sub, left to right, are left out
RECURSIVE RemoveAll(_, _)
RemoveAll(s, sub) ==
    IF Len(s) < Len(sub) THEN s
    ELSE IF SubSeq(s, 1, Len(sub)) = sub
         THEN RemoveAll(SubSeq(s, Len(sub) + 1, Len(s)), sub)
         ELSE <<s[1]>> \o RemoveAll(SubSeq(s, 2, Len(s)), sub)

\* the name of a folder, character by character
CategoryText(category) ==
    CASE category = "Bien" -> <<"B", "i", "e", "n">>
      [] category = "Servicio" -> <<"S", "e", "r", "v", "i", "c", "i", "o">>
      [] category = "Archivos de distintos tipos" ->
            <<"A", "r", "c", "h", "i", "v", "o", "s", " ", "d", "e", " ", "d", "i", "s", "t",
              "i", "n", "t", "o", "s", " ", "t", "i", "p", "o", "s">>
      [] category = "Otros" -> <<"O", "t", "r", "o", "s">>

DotPdf == <<".", "p", "d", "f">>

\* import_tdrs.py lines 49-50, 65: the id of the document stem of folder category
ImportTdrId(category, stem) ==
    LET filename == stem \o DotPdf
        tipo == MetaGet(CATEGORY_TO_TIPO, category, "SERVICIO")
    IN  TipoText(tipo) \o <<"_">> \o RemoveAll(ReplaceChar(filename, " ", "_"), DotPdf)

\* load_tdrs.py lines 80-81, 90: the id of the document stem of folder category
LoadTdrId(category, stem) ==
    ReplaceChar(ReplaceChar(CategoryText(category) \o <<"_">> \o stem, " ", "_"), ".", "_")

\* the files of a corpus: the same names in several folders, names that
\* differ in a space, an underscore or a dot
SourceDocs ==
    [category : {"Bien", "Servicio", "Archivos de distintos tipos", "Otros"},
     stem : {<<"a">>, <<"a", " ", "b">>, <<"a", "_", "b">>, <<"a", ".", "b">>}]

\* import_all_tdrs lines 78-95 (load_tdrs.py main 155-160): process_tdr of each
\* file of the corpus, here two files
RunProcess ==
    /\ idRun.step = "none"
    /\ \E script \in {"import_tdrs", "load_tdrs"}, d1, d2 \in SourceDocs :
          /\ d1 # d2
          /\ idRun' = [step |-> "processed", script |-> script, docs |-> <<d1, d2>>,
                       ids |-> IF script = "import_tdrs"
                               THEN <<ImportTdrId(d1.category, d1.stem),
                                      ImportTdrId(d2.category, d2.stem)>>
                               ELSE <<LoadTdrId(d1.category, d1.stem),
                                      LoadTdrId(d2.category, d2.stem)>>,
                       outcome |-> "none"]
    /\ UNCHANGED <<ragVars, indexVars, parserVars, rendered, canon, importRun,
                   embedSvc, sqlRows, addFlow, twin, tdrText, trip, statsFlow>>

\* import_all_tdrs lines 123-132 (load_tdrs.py 186-197): the chunk of the two
\* goes to add_tdrs_batch, which refuses a call that has an id twice
RunAdd ==
    /\ idRun.step = "processed"
    /\ idRun' = [idRun EXCEPT !.step = "added",
                              !.outcome = IF idRun.ids[1] = idRun.ids[2]
                                          THEN "DuplicateIDError" ELSE "stored"]
    /\ UNCHANGED <<ragVars, indexVars, parserVars, rendered, canon, importRun,
                   embedSvc, sqlRows, addFlow, twin, tdrText, trip, statsFlow>>

IdNext == RunProcess \/ RunAdd

IdSpec == Init /\ [][IdNext]_vars

-----------------------------------------------------------------------------
(* _parse_json_response on its own, over the bounded inputs *)

ReceiveWrapped ==
    /\ pstep = "idle"
    /\ \E obj \in Objects, lead \in Leads, trail \in Trails :
          /\ content' = lead \o Dumps(obj) \o trail
          /\ origin' = [kind |-> "wrapped", obj |-> obj, lead |-> lead, trail |-> trail]
    /\ parsed' = JNone
    /\ pstep' = "input"
    /\ UNCHANGED <<ragVars, indexVars, sideVars>>

ReceiveRaw ==
    /\ pstep = "idle"
    /\ \E text \in RawInputs :
          /\ content' = text
          /\ origin' = [kind |-> "raw", obj |-> JNone, lead |-> <<>>, trail |-> <<>>]
    /\ parsed' = JNone
    /\ pstep' = "input"
    /\ UNCHANGED <<ragVars, indexVars, sideVars>>

Parse ==
    /\ pstep = "input"
    /\ parsed' = ParseJsonResponse(content)
    /\ pstep' = "parsed"
    /\ UNCHANGED <<content, origin, ragVars, indexVars, sideVars>>

ParserNext ==
    \/ ReceiveWrapped
    \/ ReceiveRaw
    \/ Parse

ParserSpec == Init /\ [][ParserNext]_vars

-----------------------------------------------------------------------------
(* Properties *)

KeyError == <<"e", "r", "r", "o", "r">>
KeyRaw == <<"r", "a", "w">>

Returned == pc \in {"done", "failed"}
Searched == pc \in {"searched", "generating", "done", "failed"}

\* no stage of _parse_json_response can read text
AllStagesFail(text) ==
    LET stripped == StripFences(text)
    IN  /\ ~JsonLoads(stripped).ok
        /\ ~(HasSpan(stripped) /\ JsonLoads(ExtractSpan(stripped)).ok)

RECURSIVE DistProduct(_, _)
DistProduct(rows, k) ==
    IF k = 0 THEN 1 ELSE DistProduct(rows, k - 1) * (1 + rows[k].distance)

RECURSIVE SumOver(_, _, _)
SumOver(rows, k, d) ==
    IF k = 0 THEN 0 ELSE SumOver(rows, k - 1, d) + d \div (1 + rows[k].distance)

\* c is the arithmetic mean of 1/(1+distance) over rows, over the common
\* denominator d = product of (1+distance): c * n * d = sum of d/(1+distance)
IsMeanOf(c, rows) ==
    LET n == Len(rows)
        d == DistProduct(rows, n)
    IN  c.num * n * d = SumOver(rows, n, d) * c.den

\* C1: a generate_fields request whose search returned nothing sends the
\* generator the short prompt only (no context block, no full prompt) and, when
\* it returns, returns success, no references and confidence 0.3; and a
\* returned result without references comes from that path only.
C1_EmptyContextFallback ==
    /\ (pc \in {"generating", "done", "failed"} /\ storeResult = <<>>) =>
          /\ genLog = <<ShortPrompt(request.tipo)>>
          /\ pc = "done" =>
                /\ response.success
                /\ response.referencias_usadas = <<>>
                /\ response.confidence.num * 10 = 3 * response.confidence.den
    /\ (pc = "done" /\ response.referencias_usadas = <<>>) =>
          /\ storeResult = <<>>
          /\ Len(genLog) = 1
          /\ genLog[1].kind = "short"
          /\ genLog[1].contexto = NoContext

C1_Witness ==
    /\ pc = "done"
    /\ collection # <<>>
    /\ storeResult = <<>>
    /\ response.success
    /\ response.referencias_usadas = <<>>

\* C2: when the search returned a non-empty list, the returned confidence is
\* the unweighted mean of the similarities 1/(1+distance) of its elements,
\* whatever the generator replied, and lies in [0,1].
C2_ConfidenceIsMean ==
    (pc = "done" /\ storeResult # <<>>) =>
        /\ IsMeanOf(response.confidence, storeResult)
        /\ response.confidence.den > 0
        /\ 0 <= response.confidence.num
        /\ response.confidence.num <= response.confidence.den

C2_Witness ==
    /\ pc = "done"
    /\ Len(storeResult) = 2
    /\ storeResult[1].distance # storeResult[2].distance

\* C3: when no parsing stage can read the generator's reply, generate_fields
\* still returns: success is true, campos_sugeridos is the error payload, and
\* references and confidence are those of a successful parse (the search's
\* list and its mean similarity, or none and 0.3).
C3_ParseFailureStillReturns ==
    (Returned /\ AllStagesFail(content)) =>
        /\ pc = "done"
        /\ response.success
        /\ HasKey(response.campos_sugeridos, KeyError)
        /\ response.referencias_usadas = referencias
        /\ IF storeResult = <<>>
           THEN response.confidence.num * 10 = 3 * response.confidence.den
           ELSE IsMeanOf(response.confidence, storeResult)

C3_Witness ==
    /\ pc = "done"
    /\ AllStagesFail(content)
    /\ storeResult # <<>>
    /\ HasKey(response.campos_sugeridos, KeyError)

\* C4: for every input string _parse_json_response returns a mapping, also for
\* JSON that is no object; for garbage the mapping has the key "error".
C4_AlwaysMapping ==
    pstep = "parsed" =>
        /\ IsMapping(parsed)
        /\ content \in Garbage => HasKey(parsed, KeyError)

\* C5: _parse_json_response(json(X)) = X for every JSON object X, bare or
\* wrapped in a fenced code block (opening fence with or without a language
\* tag, closing fence, whitespace around).
C5_RoundTrip ==
    (/\ pstep = "parsed"
     /\ origin.kind = "wrapped"
     /\ \/ origin.lead \in LeadBlank /\ origin.trail \in TrailBlank
        \/ origin.lead \in LeadFences /\ origin.trail \in TrailFences)
    => JEq(parsed, origin.obj)

C5_Witness ==
    /\ pstep = "parsed"
    /\ origin.kind = "wrapped"
    /\ origin.lead = Fence \o <<"j", "s", NL>>
    /\ origin.trail \in TrailFences
    /\ origin.obj = ObjNested
    /\ JEq(parsed, ObjNested)

WholeIsOtherJson ==
    /\ JsonLoads(StripFences(content)).ok
    /\ StripFences(content) # Dumps(origin.obj)

C7_RawIsInputPrefix ==
    (pstep = "parsed" /\ AllStagesFail(content)) =>
        /\ parsed.t = "obj"
        /\ parsed.keys = <<KeyError, KeyRaw>>
        /\ Lookup(parsed, KeyRaw) = JStr(Prefix(content, RawLimit))

\* C7 (amended): after a total failure the payload has exactly the keys error
\* and raw, raw being the first 500 characters of the input once trimmed and
\* freed of its fence markers.
C7_RawIsStrippedPrefix ==
    (pstep = "parsed" /\ AllStagesFail(content)) =>
        LET stripped == StripFences(content)
            raw == Lookup(parsed, KeyRaw)
        IN  /\ parsed.t = "obj"
            /\ parsed.keys = <<KeyError, KeyRaw>>
            /\ raw.t = "str"
            /\ Len(raw.s) = (IF Len(stripped) < 500 THEN Len(stripped) ELSE 500)
            /\ \A i \in 1..Len(raw.s) : raw.s[i] = stripped[i]

C7_Witness ==
    /\ pstep = "parsed"
    /\ AllStagesFail(content)
    /\ Len(StripFences(content)) > 500
    /\ StripFences(content) # content
    /\ Len(Lookup(parsed, KeyRaw).s) = 500

\* C8: a generate_fields execution that reaches the generator calls it exactly
\* once: not again after a reply that did not parse, and not on both paths.
C8_GeneratorCalledOnce ==
    /\ pc \in {"generating", "done", "failed"} => Len(genLog) = 1
    /\ pc \in {"idle", "searched"} => genLog = <<>>

C8_Witness ==
    /\ pc = "done"
    /\ AllStagesFail(content)
    /\ Len(genLog) = 1

C10_RankingPreserved ==
    /\ Searched =>
          /\ Len(referencias) = Len(storeResult)
          /\ \A k \in 1..Len(referencias) : referencias[k].id = storeResult[k].id
          /\ \A a, b \in 1..Len(referencias) :
                a < b => /\ storeResult[a].distance <= storeResult[b].distance
                         /\ RatLe(referencias[b].similarity, referencias[a].similarity)
    /\ pc = "done" =>
          /\ Len(response.referencias_usadas) = Len(storeResult)
          /\ \A k \in 1..Len(storeResult) :
                /\ response.referencias_usadas[k].id = storeResult[k].id
                /\ response.referencias_usadas[k] = referencias[k]

C10_Witness ==
    /\ pc = "done"
    /\ Len(response.referencias_usadas) = 2
    /\ storeResult[1].distance < storeResult[2].distance
    /\ response.referencias_usadas[1].id > response.referencias_usadas[2].id

-----------------------------------------------------------------------------
(* Properties of the index *)

\* the stored documents whose tipo metadata is tipo
OfTipo(coll, tipo) ==
    {i \in 1..Len(coll) : "tipo" \in DOMAIN coll[i].metadata /\ coll[i].metadata["tipo"] = tipo}

\* C11: a search with a tipo filter T and limit k returns at most k results,
\* each of them a stored document whose tipo is T (and says so), and returns
\* nothing when no stored document has tipo T; on an index holding a single
\* document, of tipo SERVICIO, the search for SERVICIO returns exactly that
\* document.
C11_TypeFilteredSearch ==
    [][(pc = "idle" /\ pc' = "searched" /\ request'.tipo # NoTipo) =>
          LET T == request'.tipo
              found == referencias'
          IN  /\ Len(found) <= request'.num_referencias
              /\ \A j \in 1..Len(found) :
                    /\ found[j].tipo = T
                    /\ \E i \in OfTipo(collection, T) : collection[i].id = found[j].id
              /\ OfTipo(collection, T) = {} => found = <<>>
              /\ (Len(collection) = 1 /\ OfTipo(collection, "SERVICIO") = {1}) =>
                    IF T = "SERVICIO"
                    THEN Len(found) = 1 /\ found[1].id = collection[1].id
                    ELSE found = <<>>]_vars

\* a search for SERVICIO with limit 2 on an index of two documents, one of
\* them a SERVICIO document: that one alone is returned
C11_Witness ==
    /\ pc = "searched"
    /\ request.tipo = "SERVICIO"
    /\ request.num_referencias = 2
    /\ Len(collection) = 2
    /\ Cardinality(OfTipo(collection, "SERVICIO")) = 1
    /\ Len(referencias) = 1
    /\ \E i \in OfTipo(collection, "SERVICIO") : referencias[1].id = collection[i].id

\* the metadata stored under id
StoredMetadata(coll, id) == coll[CHOOSE i \in 1..Len(coll) : coll[i].id = id].metadata

\* the stored fields_json is there and cannot be decoded
Unparseable(metadata) ==
    "fields_json" \in DOMAIN metadata /\ ~JsonLoads(metadata["fields_json"]).ok

\* every answer the store may give to a search on coll
AllQueries(coll) ==
    UNION {CollectionQuery(coll, q, limit, tipo) :
              q \in Coords, limit \in 1..MaxRefs, tipo \in TdrTipo \cup {NoTipo}}

\* C12: no search fails, whatever the stored fields_json are; a search returns
\* one result per row of the store's answer, in the answer's order; a result
\* whose stored fields_json cannot be decoded has fields == {}, and every
\* other result that has a fields_json has the fields that text encodes.
C12_CorruptFieldsIsolated ==
    /\ \A rows \in AllQueries(collection) : ~SearchRaises(rows)
    /\ pc = "searched" =>
          /\ Len(referencias) = Len(storeResult)
          /\ \A k \in 1..Len(referencias) :
                LET metadata == StoredMetadata(collection, referencias[k].id)
                IN  /\ referencias[k].id = storeResult[k].id
                    /\ Unparseable(metadata) => referencias[k].fields = JObj(<<>>, <<>>)
                    /\ ("fields_json" \in DOMAIN metadata /\ ~Unparseable(metadata)) =>
                          /\ IsMapping(referencias[k].fields)
                          /\ Dumps(referencias[k].fields) = metadata["fields_json"]

\* a search returned two results, one stored with a fields_json that cannot be
\* decoded, the other with its fields
C12_Witness ==
    /\ pc = "searched"
    /\ Len(referencias) = 2
    /\ \E j, k \in 1..2 :
          /\ Unparseable(StoredMetadata(collection, referencias[j].id))
          /\ referencias[j].fields = JObj(<<>>, <<>>)
          /\ ~Unparseable(StoredMetadata(collection, referencias[k].id))
          /\ referencias[k].fields # JObj(<<>>, <<>>)

-----------------------------------------------------------------------------
(* Properties of failures *)

\* C13: when the embedding call, the index query or the generator call of a
\* generate_fields request has raised, the request is over with the exception
\* and nothing else: no response, no generator call after a failed embedding or
\* query, and exactly the one generator call when it was that call that failed.
C13_FailurePropagates ==
    raised # "none" =>
        /\ pc = "raised"
        /\ response = NoResponse
        /\ raised \in {"embedding", "index"} => genLog = <<>> /\ referencias = <<>>
        /\ raised = "generator" => Len(genLog) = 1

\* the index query of a request failed on an index that holds documents
C13_Witness ==
    /\ pc = "raised"
    /\ raised = "index"
    /\ collection # <<>>
    /\ genLog = <<>>

-----------------------------------------------------------------------------
(* Properties of _build_context *)

\* C14: every block _build_context renders has at most 15 field lines, and the
\* value of every line has at most 500 characters, however many fields the
\* reference has and however long their values (strings, numbers, lists,
\* dicts) are.
C14_ContextBounded ==
    rendered.built =>
        \A b \in 1..Len(rendered.blocks) :
            /\ Len(rendered.blocks[b].lines) <= 15
            /\ \A l \in 1..Len(rendered.blocks[b].lines) :
                  Len(rendered.blocks[b].lines[l].value) <= 500

\* the context of a reference with more than 15 truthy fields was rendered,
\* its block having 15 lines
C14_Witness ==
    /\ rendered.built
    /\ \E b \in 1..Len(referencias) :
          /\ Len(referencias[b].fields.keys) > 15
          /\ \A i \in 1..Len(referencias[b].fields.kids) : Truthy(referencias[b].fields.kids[i])
          /\ Len(rendered.blocks[b].lines) = 15

\* the context of a reference with a list whose encoding has more than 500
\* characters was rendered, the line's value having 500
C14_WitnessLongList ==
    /\ rendered.built
    /\ \E b \in 1..Len(referencias) :
          /\ referencias[b].fields.kids[1].t = "arr"
          /\ Len(Dumps(referencias[b].fields.kids[1])) > 500
          /\ Len(rendered.blocks[b].lines) = 1
          /\ Len(rendered.blocks[b].lines[1].value) = 500

-----------------------------------------------------------------------------
(* Properties of the embedded text *)

\* C15: the text embedded for a query built from the tipo and the fields of a
\* document is the text embedded for that document at ingestion.
C15_SameCanonicalText ==
    canon.step = "queried" => canon.query = canon.document

-----------------------------------------------------------------------------
(* Properties of the index operations *)

Unequal(lens) == \E a, b \in 1..Len(lens) : lens[a] # lens[b]

\* C16: an add_tdrs_batch call whose four lists are not all of the same length
\* raises the store's ValueError and leaves the stored documents as they were.
C16_ArityMismatchRejected ==
    [][(lastCall'.op = "add_tdrs_batch" /\ Unequal(lastCall'.lens)) =>
          /\ lastCall'.error = "ValueError"
          /\ collection' = collection]_vars

\* a call with two ids and one document was rejected on an index of one
\* document, which is all the index holds afterwards
C16_Witness ==
    /\ lastCall.op = "add_tdrs_batch"
    /\ lastCall.lens = <<2, 2, 2, 1>>
    /\ lastCall.error = "ValueError"
    /\ lastCall.before = 1
    /\ Len(collection) = 1

\* C17: no step other than clear() changes or removes a stored document: its
\* id, embedding, metadata and text stay what they were when it was stored.
C17_StoredDocumentsImmutable ==
    [][lastCall'.op # "clear" =>
          /\ Len(collection') >= Len(collection)
          /\ \A i \in 1..Len(collection) : collection'[i] = collection[i]]_vars

\* add_tdrs_batch was called with the id of a stored document and another
\* metadata, and returned; the stored document has the metadata it had
C17_Witness ==
    /\ lastCall.op = "add_tdrs_batch"
    /\ lastCall.error = "none"
    /\ lastCall.ids = <<1>>
    /\ lastCall.before = 1
    /\ Len(collection) = 1
    /\ collection[1].id = 1
    /\ collection[1].metadata # SourceMetadata(1)

\* C18: when clear() has returned the index is empty (get_stats would report
\* zero documents and no keys, every search returns []), and it has the
\* name and the metadata it was first created with; whatever was cleared
\* before, an add of a fresh document succeeds and stores it.
C18_ClearEmpties ==
    /\ config = CollectionConfig
    /\ lastCall.op = "clear" =>
          /\ collection = <<>>
          /\ GetStatsResult(collection) =
                [total_tdrs |-> 0, por_tipo |-> <<>>, por_categoria |-> <<>>]
          /\ AllQueries(collection) = {<<>>}
          /\ \A req \in AddTdrRequests :
                LET added == CollectionAdd(collection, <<1>>, <<0>>, <<AddTdrMetadata(req)>>,
                                           <<AddTdrDocument(req)>>)
                IN  added.error = "none" /\ Len(added.coll) = 1

\* clear() has returned on an index that held documents
C18_Witness ==
    /\ lastCall.op = "clear"
    /\ lastCall.before = 2
    /\ collection = <<>>

\* the values of a metadata key over the stored documents, "UNKNOWN" for a
\* document without the key
KeyValues(key) == {MetaGet(collection[i].metadata, key, "UNKNOWN") : i \in 1..Len(collection)}

\* counts is the dict of the numbers of stored documents per value of key
CountsAre(counts, key) ==
    /\ DOMAIN counts = KeyValues(key)
    /\ \A v \in DOMAIN counts :
          /\ counts[v] > 0
          /\ counts[v] = Cardinality({i \in 1..Len(collection) :
                                        MetaGet(collection[i].metadata, key, "UNKNOWN") = v})

\* C19: what get_stats returned while nothing else touched the index:
\* total_tdrs is the number of stored documents; por_tipo and por_categoria
\* have one key per value that occurs ("UNKNOWN" for documents without the
\* key), each with the number of documents of that value, never zero.
C19_StatsCountDocuments ==
    lastCall.op = "get_stats" =>
        /\ lastCall.stats.total_tdrs = Len(collection)
        /\ CountsAre(lastCall.stats.por_tipo, "tipo")
        /\ CountsAre(lastCall.stats.por_categoria, "category")

\* get_stats returned on an index of two documents, one of them without tipo
C19_Witness ==
    /\ lastCall.op = "get_stats"
    /\ lastCall.stats.total_tdrs = 2
    /\ "UNKNOWN" \in DOMAIN lastCall.stats.por_tipo
    /\ lastCall.stats.por_tipo["UNKNOWN"] = 1
    /\ Cardinality(DOMAIN lastCall.stats.por_tipo) = 2

-----------------------------------------------------------------------------
(* Properties of the import *)

ImportFailedPartway ==
    /\ importRun.status = "failed"
    /\ importRun.next > 1

ImportComplete ==
    /\ importRun.status = "done"
    /\ \A k \in 1..importRun.n :
          Cardinality({i \in 1..Len(collection) :
                          collection[i].id = importRun.ids[k]}) = 1

\* C20: an import run that failed after some of its chunks went in is followed,
\* when the import is run again, by a run that ends with every document of
\* the import stored once; and no chunk a run inserts changes or removes a
\* document that is stored.
C20_ImportResumable ==
    /\ ImportFailedPartway ~> ImportComplete
    /\ [][\A i \in 1..Len(collection) :
             i <= Len(collection') /\ collection'[i] = collection[i]]_vars

\* the same for the imports whose documents have ids of their own
C20_ResumableDistinctIds ==
    /\ (ImportFailedPartway /\ importRun.same = 0) ~> ImportComplete
    /\ [][\A i \in 1..Len(collection) :
             i <= Len(collection') /\ collection'[i] = collection[i]]_vars

\* a run that started on an index holding the first chunk of a failed run has
\* ended with all documents stored
C20_Resumed ==
    /\ ImportComplete
    /\ importRun.failures > 0
    /\ importRun.startedWith = BatchSize
    /\ importRun.n > BatchSize

-----------------------------------------------------------------------------
(* Properties of the embedding service *)

\* C21: every get_embedding and get_embeddings_batch call returns, with one
\* vector for each text it was given; none ends with an exception.
C21_EmbeddingNeverRaises ==
    embedSvc.out.op # "none" =>
        /\ embedSvc.out.outcome = "returned"
        /\ embedSvc.out.vectors = Len(embedSvc.out.texts)

\* C22: every construction of EmbeddingService returns the one instance, the
\* model is loaded once, by the first construction, and once it is there no
\* construction and no call puts another in its place.
C22_SingletonLoadedOnce ==
    /\ [](embedSvc.imported = "yes" =>
            /\ embedSvc.returned = {1}
            /\ embedSvc.instances = 1
            /\ embedSvc.loads = 1
            /\ embedSvc.out.model \in {0, 1})
    /\ [][embedSvc.model # 0 => embedSvc'.model = embedSvc.model]_vars

\* both threads are inside a construction that came after the first one, and an
\* embedding was computed meanwhile
C22_Witness ==
    /\ \A t \in Threads : embedSvc.tpc[t] = "new"
    /\ embedSvc.out.outcome = "returned"
    /\ embedSvc.loads = 1

-----------------------------------------------------------------------------
(* Properties of add_tdr over the two stores *)

\* C26: when an add_tdr request has ended, with success or with HTTP 500, its
\* tdr_id is in the vector index exactly when the relational store has a row
\* with that id.
C26_AddTdrAllOrNothing ==
    addFlow.step \in {"returned", "failed"} =>
        (addFlow.id \in StoredIds(collection) <=> addFlow.id \in sqlRows)

-----------------------------------------------------------------------------
(* Properties of the requests' effects *)

\* a step of a search or generate_fields invocation: the request is in flight
\* before it or after it
RequestStep == pc # "idle" \/ pc' # "idle"

C23_WitnessRaised ==
    /\ pc = "raised"
    /\ collection # <<>>

-----------------------------------------------------------------------------
(* Properties of create_tdr_text *)

\* the values of the dicts among the first three items of a list
RECURSIVE ClaimedObjectValues(_, _)
ClaimedObjectValues(items, k) ==
    IF k > Len(items) \/ k > 3 THEN <<>>
    ELSE (IF items[k].t = "obj" THEN items[k].kids ELSE <<>>)
         \o ClaimedObjectValues(items, k + 1)

\* the flattening of a value as the specification words it
ClaimedFlatten(value) ==
    IF value.t = "arr" /\ value.kids # <<>> /\ value.kids[1].t = "obj"
    THEN LET vals == ClaimedObjectValues(value.kids, 1)
         IN  Join([j \in 1..Len(vals) |-> Str(vals[j])], Bar)
    ELSE IF value.t = "arr"
    THEN Join([j \in 1..Min({Len(value.kids), 5}) |-> Str(value.kids[j])], Bar)
    ELSE IF value.t = "obj"
    THEN Join([j \in 1..Min({Len(value.kids), 5}) |->
                 value.keys[j] \o <<":", " ">> \o Str(value.kids[j])], Bar)
    ELSE Str(value)

\* the lines of the priority fields that fields has with a value that is not
\* empty, in the priority order
ClaimedLines(fields) ==
    LET present == SelectSeq(PriorityFields,
                             LAMBDA f : HasKey(fields, f) /\ Truthy(Lookup(fields, f)))
    IN  [j \in 1..Len(present) |->
            present[j] \o <<":", " ">> \o ClaimedFlatten(Lookup(fields, present[j]))]

\* C24: every create_tdr_text call returns a text: the line "Tipo: {tipo}",
\* then a line "field: value" for each priority field that is present with a
\* value that is not empty, in the priority order whatever the order of the
\* keys, the value flattened by the four rules (a list of objects, another
\* list, a mapping, anything else).
C24_CanonicalText ==
    tdrText.step = "called" =>
        /\ tdrText.outcome = "returned"
        /\ tdrText.text =
              Join(<<<<"T", "i", "p", "o", ":", " ">> \o TipoText(tdrText.tipo)>>
                   \o ClaimedLines(tdrText.fields), <<NL>>)

-----------------------------------------------------------------------------
(* Properties of the ingestion paths *)

\* the cap of a path as the specification gives it
ClaimedCap(path) == IF path = "import_tdrs" THEN 50000 ELSE 10000

\* C25: on every ingestion path the fields_json stored with a document has at
\* most the characters of that path's cap, 10,000 for add_tdr and load_tdrs and
\* 50,000 for import_tdrs, and never more than 50,000.
C25_FieldsJsonCapped ==
    trip.step = "stored" =>
        /\ Len(trip.metadata.fields_json) <= ClaimedCap(trip.path)
        /\ Len(trip.metadata.fields_json) <= 50000

\* every path has stored a document whose encoded fields are longer than its cap
C25_Witness ==
    /\ trip.step = "stored"
    /\ trip.path = "load_tdrs"
    /\ Len(Dumps(trip.fields)) > 10000
    /\ Len(trip.metadata.fields_json) = 10000

\* the encoded fields fit the cap of the path
Fits(t) == Len(Dumps(t.fields)) <= ClaimedCap(t.path)

\* C27: a document ingested with the mapping F comes back from search and from
\* GET /api/tdr/{tdr_id} with fields equal to F when the encoded F fits the cap
\* of its path, and with the empty mapping when it does not: never a part of F.
C27_FieldsRoundTrip ==
    /\ trip.searched # "raised"
    /\ trip.searched = "yes" =>
          trip.searchFields = (IF Fits(trip) THEN trip.fields ELSE JObj(<<>>, <<>>))
    /\ trip.got =>
          trip.getFields = (IF Fits(trip) THEN trip.fields ELSE JObj(<<>>, <<>>))

\* a document whose encoding lost its end was searched for and fetched
C27_Witness ==
    /\ trip.searched = "yes"
    /\ trip.got
    /\ ~Fits(trip)
    /\ trip.searchFields = JObj(<<>>, <<>>)
    /\ trip.getFields = JObj(<<>>, <<>>)

\* a document of exactly the cap's length was searched for and fetched
C27_WitnessWhole ==
    /\ trip.searched = "yes"
    /\ trip.got
    /\ Len(Dumps(trip.fields)) = ClaimedCap(trip.path)
    /\ trip.searchFields = trip.fields
    /\ trip.getFields = trip.fields

\* C30: every document stored by an ingestion path has a tipo that is one of
\* BIEN, SERVICIO, OBRA, CONSULTORIA_OBRA, so the TdrTipo(...) of the search
\* result built for it succeeds: the search does not fail on it.
C30_StoredTipoValid ==
    /\ trip.step = "stored" =>
          trip.metadata.tipo \in {"BIEN", "SERVICIO", "OBRA", "CONSULTORIA_OBRA"}
    /\ trip.searched # "raised"

\* a file of a folder outside CATEGORY_TO_TIPO, placed by its text, was found
C30_Witness ==
    /\ trip.path = "load_tdrs"
    /\ trip.metadata.category = "Otros"
    /\ trip.metadata.tipo = "CONSULTORIA_OBRA"
    /\ trip.searched = "yes"

-----------------------------------------------------------------------------
(* Properties of get_stats under interleaving *)

\* the sum of the counts of a dict
RECURSIVE SumCounts(_, _)
SumCounts(counts, keys) ==
    IF keys = {} THEN 0
    ELSE LET k == CHOOSE k \in keys : TRUE
         IN  counts[k] + SumCounts(counts, keys \ {k})

\* C28: every result of get_stats has total_tdrs equal to the sum of the
\* por_tipo counts and to the sum of the por_categoria counts, also when
\* add_tdr, add_tdrs_batch or clear calls of others fall between the count and
\* the enumeration of the call.
C28_StatsSumsAgree ==
    statsFlow.step = "returned" =>
        /\ statsFlow.result.total_tdrs =
              SumCounts(statsFlow.result.por_tipo, DOMAIN statsFlow.result.por_tipo)
        /\ statsFlow.result.total_tdrs =
              SumCounts(statsFlow.result.por_categoria, DOMAIN statsFlow.result.por_categoria)

-----------------------------------------------------------------------------
(* Properties of the ids of a run *)

\* C29: in one run of import_tdrs or load_tdrs distinct source documents get
\* distinct ids, so no add_tdrs_batch call carries an id twice: also files of
\* the same name in folders of the same tipo, and names that differ only in
\* the characters the id replaces.
C29_DistinctIds ==
    /\ idRun.step # "none" /\ idRun.docs[1] # idRun.docs[2] => idRun.ids[1] # idRun.ids[2]
    /\ idRun.outcome # "DuplicateIDError"

====
